---- MODULE Spec2Model ----
(***************************************************************************)
(* A model of the AP2 mandate-verification core of ucp-exploration:        *)
(*   services/shared/ap2_crypto.py   tokens and SD-JWT+kb                  *)
(*   services/business-2/ap2.py      merchant-side verification            *)
(*   services/psp/main.py            payment-processor verification         *)
(*   services/business-2/sessions.py checkout sessions                     *)
(*                                                                         *)
(* Modelling conventions.                                                  *)
(*  - A Python dict is a TLA+ function with a string domain; a key whose   *)
(*    value is None/absent is a key outside the domain (dict.get).         *)
(*  - A dotted or tilde-joined string is the sequence of its segments, so  *)
(*    str.split is the identity on that sequence and len(parts) is Len.    *)
(*  - ECDSA is ideal: a signature made by private key k over data d is     *)
(*    the value <<"sig", public point of k, d>> and verifies for exactly   *)
(*    that point and that data.  SHA-256 is ideal (injective).             *)
(*  - json.dumps/json.loads are inverse bijections on the values used     *)
(*    here and a JWT segment is kept as the value it encodes; the          *)
(*    signature segment of a detached token is a base64url text, which     *)
(*    b64url_decode maps to bytes (several texts to the same bytes) or     *)
(*    fails to decode.                                                     *)
(*  - An exception that leaves a function declared to return a value is    *)
(*    the outcome [raised |-> TRUE, exc |-> class].                        *)
(*  - time.time() is the variable `now`, in whole seconds.                 *)
(*  - A ValueError raised by a verifier is the result                      *)
(*    [ok |-> FALSE, err |-> kind], kind being the spec's name for the     *)
(*    raise site; the code's message is quoted at each site.               *)
(***************************************************************************)
EXTENDS Integers, Sequences, FiniteSets, Bags, TLC

\* ------------------------------------------------------------------ bounds

\* Largest clock value explored.
MaxNow == 2

\* Number of verification calls started in one behaviour of Spec.
MaxCalls == 3

\* Number of calls suspended in the key fetch at one time.
MaxPending == 2

\* ----------------------------------------------------------- Python values

None == [py_none |-> TRUE]

EmptyDict == [k \in {} |-> 0]

\* dict.get(k, default)
Get(d, k, default) == IF k \in DOMAIN d THEN d[k] ELSE default

Has(d, k) == k \in DOMAIN d

\* {**a, **b}: the keys of both, b's value where both have the key
Merge(a, b) == [k \in DOMAIN a \cup DOMAIN b |-> IF k \in DOMAIN b THEN b[k] ELSE a[k]]

\* a dict without key k (dict.pop(k, None) on a copy)
Without(d, k) == [j \in DOMAIN d \ {k} |-> d[j]]

Ok(v) == [ok |-> TRUE, value |-> v]

Err(kind) == [ok |-> FALSE, err |-> kind]

\* --------------------------------------------------------------------- keys

\* Private keys.  kP is the platform's signing key, kH an agent's holder key,
\* kA a key held by somebody else, kM the merchant's key.
PlatformKey == "kP"

HolderKey == "kH"

OtherKey == "kA"

MerchantKey == "kM"

\* the public point (x, y) of a private key
PublicPoint(private_key) == <<private_key, private_key>>

export_public_jwk(private_key, kid) ==
    [kid |-> kid, kty |-> "EC", crv |-> "P-256",
     x |-> PublicPoint(private_key)[1], y |-> PublicPoint(private_key)[2],
     alg |-> "ES256", use |-> "sig"]

jwk_to_public_key(jwk) == <<jwk.x, jwk.y>>

\* the cnf.jwk a constructor embeds: {k: holder_jwk[k] for k in (kty, crv, x, y)}
CnfJwk(holder_jwk) == [k \in {"kty", "crv", "x", "y"} |-> holder_jwk[k]]

\* ------------------------------------------------------- signatures, hashes

sign_raw(data, private_key) == <<"sig", PublicPoint(private_key), data>>

verify_raw(signature, data, public_key) == signature = <<"sig", public_key, data>>

sha256(s) == <<"sha256", s>>

\* --------------------------------------------------------------------- JWT

\* header.payload.signature; the signature covers header.payload
create_jwt(header, payload, private_key) ==
    <<header, payload, sign_raw(<<header, payload>>, private_key)>>

VerifyJwtSignature(parts, public_jwk) ==
    verify_raw(parts[3], <<parts[1], parts[2]>>, jwk_to_public_key(public_jwk))

\* returns the payload, or raises ValueError
verify_jwt(token, public_jwk) ==
    IF Len(token) # 3
    THEN Err("format_invalid")        \* "Invalid JWT format"
    ELSE IF ~VerifyJwtSignature(token, public_jwk)
         THEN Err("signature_invalid")    \* "Invalid JWT signature"
         ELSE Ok(token[2])

\* ---------------------------------------------------------------- SD-JWT+kb

\* a constructor that forgets the lifetime: exp = iat
IssuerPayload_NoTtl(claims, holder_jwk, ttl_seconds, t) ==
    Merge(claims, [iat |-> t, exp |-> t, cnf |-> [jwk |-> CnfJwk(holder_jwk)]])

IssuerPayload(claims, holder_jwk, ttl_seconds, t) ==
    Merge(claims, [iat |-> t, exp |-> t + ttl_seconds,
                   cnf |-> [jwk |-> CnfJwk(holder_jwk)]])

KbPayload(audience, t, nonce, issuer_jwt) ==
    [aud |-> audience, iat |-> t, nonce |-> nonce, sd_hash |-> sha256(issuer_jwt)]

IssuerHeader(typ, issuer_kid) == [alg |-> "ES256", typ |-> typ, kid |-> issuer_kid]

KbHeader == [alg |-> "ES256", typ |-> "kb+jwt"]

\* the key that signs the key-binding token in create_sd_jwt_kb
KbSigningKey(issuer_key) == issuer_key

\* t is int(time.time()) and nonce the os.urandom(16) drawn by the call
create_sd_jwt_kb(claims, issuer_key, issuer_kid, holder_jwk, audience, typ, ttl_seconds, t, nonce) ==
    LET issuer_jwt == create_jwt(IssuerHeader(typ, issuer_kid),
                                 IssuerPayload(claims, holder_jwk, ttl_seconds, t),
                                 issuer_key)
        kb_jwt == create_jwt(KbHeader, KbPayload(audience, t, nonce, issuer_jwt),
                             KbSigningKey(issuer_key))
    IN  <<issuer_jwt, kb_jwt>>

create_sd_jwt_kb_with_holder_key(claims, issuer_key, issuer_kid, holder_key, holder_jwk, audience, typ, ttl_seconds, extra_kb_claims, t, nonce) ==
    LET issuer_jwt == create_jwt(IssuerHeader(typ, issuer_kid),
                                 IssuerPayload(claims, holder_jwk, ttl_seconds, t),
                                 issuer_key)
        kb_payload == Merge(KbPayload(audience, t, nonce, issuer_jwt), extra_kb_claims)
        kb_jwt == create_jwt(KbHeader, kb_payload, holder_key)
    IN  <<issuer_jwt, kb_jwt>>

\* a verifier without the expiration check
SdJwtExpired_Never(issuer_claims, t) == FALSE

\* "exp" in issuer_claims and issuer_claims["exp"] < now
SdJwtExpired(issuer_claims, t) == Has(issuer_claims, "exp") /\ issuer_claims.exp < t

\* a verifier that checks the key-binding token under the issuer's key
BindingKey_Issuer(issuer_claims, issuer_public_jwk) == issuer_public_jwk

\* the key the key-binding token is verified under
BindingKey(issuer_claims, issuer_public_jwk) == issuer_claims.cnf.jwk

\* a verifier that only requires some aud to be present
AudienceMismatch_PresenceOnly(kb_claims, expected_aud) ==
    Len(expected_aud) = 1 /\ ~Has(kb_claims, "aud")

\* expected_aud is not None and kb_claims.get("aud") != expected_aud;
\* expected_aud is <<>> for None and <<a>> for the string a
AudienceMismatch(kb_claims, expected_aud) ==
    /\ Len(expected_aud) = 1
    /\ ~(Has(kb_claims, "aud") /\ kb_claims.aud = expected_aud[1])

\* a verifier that only requires the key-binding token to carry some sd_hash
SdHashMismatch_PresenceOnly(kb_claims, issuer_jwt) == ~Has(kb_claims, "sd_hash")

\* kb_claims.get("sd_hash") != expected_sd_hash, the hash of the issuer token
\* of the credential presented
SdHashMismatch(kb_claims, issuer_jwt) ==
    ~(Has(kb_claims, "sd_hash") /\ kb_claims.sd_hash = sha256(issuer_jwt))

\* returns the issuer claims, or raises ValueError; t is int(time.time())
verify_sd_jwt_kb(token, issuer_public_jwk, expected_aud, t) ==
    IF Len(token) # 2
    THEN Err("format_invalid")   \* "Invalid SD-JWT+kb format: expected issuer_jwt~kb_jwt"
    ELSE LET issuer_jwt == token[1]
             kb_jwt == token[2]
             issuer == verify_jwt(issuer_jwt, issuer_public_jwk)
         IN  IF ~issuer.ok THEN issuer
             ELSE IF SdJwtExpired(issuer.value, t)
             THEN Err("expired")                     \* "SD-JWT expired"
             ELSE IF ~(Has(issuer.value, "cnf") /\ Has(issuer.value.cnf, "jwk"))
             THEN Err("missing_binding_key")         \* "Missing cnf.jwk in issuer JWT"
             ELSE LET kb == verify_jwt(kb_jwt, BindingKey(issuer.value, issuer_public_jwk))
                  IN  IF ~kb.ok THEN kb
                      ELSE IF AudienceMismatch(kb.value, expected_aud)
                      THEN Err("audience_mismatch")  \* "Key binding audience mismatch"
                      ELSE IF SdHashMismatch(kb.value, issuer_jwt)
                      THEN Err("binding_hash_mismatch")  \* "Key binding sd_hash mismatch"
                      ELSE Ok(issuer.value)

\* ------------------------------------------------- detached JWS, merchant key

\* the empty middle segment of header..signature
EmptySegment == <<>>

\* A base64url text is <<"b64", bytes, suffix>>: the text b64url_encode gives
\* for the bytes, followed by a suffix.  Suffix "=" is padding, which
\* urlsafe_b64decode accepts, so that the text decodes to the same bytes;
\* suffix "!" is a character outside the alphabet, which leaves a text of
\* incorrect padding.  The empty text decodes to no bytes.
b64url_encode(data) == <<"b64", data, "">>

\* urlsafe_b64decode raises binascii.Error (a ValueError) on this text
Undecodable(s) == s # <<>> /\ s[3] = "!"

b64url_decode(s) == IF s = <<>> THEN <<>> ELSE s[2]

\* the outcome of a call: a returned value or an exception leaving the call
Returns(value) == [raised |-> FALSE, value |-> value]

Raises(exc) == [raised |-> TRUE, exc |-> exc]

\* jwk["x"], jwk["y"] raise KeyError on a dict without them
IllFormedJwk(jwk) == ~(Has(jwk, "x") /\ Has(jwk, "y"))

\* canonical bytes of a value; a dict being a function, its sorted-key
\* serialisation is determined by the function alone
jcs_canonicalize(obj) == <<"jcs", obj>>

sign_detached(payload_bytes, private_key, kid) ==
    LET header == [alg |-> "ES256", kid |-> kid]
    IN  <<header, EmptySegment,
          b64url_encode(sign_raw(<<header, payload_bytes>>, private_key))>>

\* returns a bool, or is left by the exception of b64url_decode or of
\* jwk_to_public_key, which it does not catch
verify_detached(jws, payload_bytes, public_jwk) ==
    IF Len(jws) # 3 \/ jws[2] # EmptySegment
    THEN Returns(FALSE)
    ELSE IF Undecodable(jws[3])
    THEN Raises("binascii.Error")
    ELSE IF IllFormedJwk(public_jwk)
    THEN Raises("KeyError")
    ELSE Returns(verify_raw(b64url_decode(jws[3]), <<jws[1], payload_bytes>>,
                            jwk_to_public_key(public_jwk)))

merchant_public_jwk == export_public_jwk(MerchantKey, "merchant_002")

sign_checkout_response(checkout_dict) ==
    LET to_sign == Without(checkout_dict, "ap2")
        jws == sign_detached(jcs_canonicalize(to_sign), MerchantKey, merchant_public_jwk.kid)
    IN  Merge(checkout_dict,
              [ap2 |-> Merge(Get(checkout_dict, "ap2", EmptyDict),
                             [merchant_authorization |-> jws])])

\* a check of who signed, whatever was signed
verify_own_merchant_authorization_SignerOnly(checkout_dict) ==
    LET ap2 == Get(checkout_dict, "ap2", EmptyDict)
    IN  IF ~Has(ap2, "merchant_authorization") \/ ap2.merchant_authorization = <<>>
        THEN Returns(FALSE)
        ELSE IF Undecodable(ap2.merchant_authorization[3])
        THEN Raises("binascii.Error")
        ELSE Returns(b64url_decode(ap2.merchant_authorization[3])[2]
                        = jwk_to_public_key(merchant_public_jwk))

\* the outcome of verify_detached, or False without a merchant_authorization
verify_own_merchant_authorization(checkout_dict) ==
    LET ap2 == Get(checkout_dict, "ap2", EmptyDict)
    IN  IF ~Has(ap2, "merchant_authorization") \/ ap2.merchant_authorization = <<>>
        THEN Returns(FALSE)
        ELSE verify_detached(ap2.merchant_authorization,
                             jcs_canonicalize(Without(checkout_dict, "ap2")),
                             merchant_public_jwk)

\* ----------------------------------------------------- intent-mandate checks

Range(seq) == {seq[i] : i \in DOMAIN seq}

\* int(round(total * 100)); a total is held in thousandths of the currency
\* unit, and round() rounds a tie to the even neighbour
AmountCents(total) ==
    LET q == total \div 10
        r == total % 10
    IN  IF r < 5 THEN q
        ELSE IF r > 5 THEN q + 1
        ELSE IF q % 2 = 0 THEN q ELSE q + 1

\* return False, message: a message is the text of the code's f-string as
\* the sequence of its parts, the part before ": " first and the values
\* interpolated left out; a rejection returns before the ledger is written
Reject(message) == [ok |-> FALSE, message |-> message, write |-> <<>>]

\* return True, "" after _intent_usage[mandate_id] = usage
Accept(mandate_id, usage) ==
    [ok |-> TRUE, message |-> <<>>, write |-> <<mandate_id, usage>>]

\* return True, "" of a call that counted the presentation in the ledger
AcceptUncounted_Counted ==
    [ok |-> TRUE, message |-> <<>>, write |-> <<1, [total_spent |-> 0, use_count |-> 1]>>]

\* return True, "" of a call that did not reach the ledger
AcceptUncounted == [ok |-> TRUE, message |-> <<>>, write |-> <<>>]

NewUsage == [total_spent |-> 0, use_count |-> 0]

\* _intent_usage.get(mandate_id, {"total_spent": 0, "use_count": 0})
UsageGet(usage, mandate_id) == Get(usage, mandate_id, NewUsage)

UsesExceeded_OffByOne(entry, auth) ==
    Has(auth, "max_uses") /\ entry.use_count > auth.max_uses

\* max_uses is not None and usage["use_count"] >= max_uses
UsesExceeded(entry, auth) ==
    Has(auth, "max_uses") /\ entry.use_count >= auth.max_uses

TotalExceeded_Inclusive(entry, amount_cents, auth) ==
    Has(auth, "max_total") /\ (entry.total_spent + amount_cents) >= auth.max_total

\* max_total is not None and (usage["total_spent"] + amount_cents) > max_total
TotalExceeded(entry, amount_cents, auth) ==
    Has(auth, "max_total") /\ (entry.total_spent + amount_cents) > auth.max_total

\* a verifier that counts the use before it tests max_total: usage is the dict
\* held in _intent_usage, so the in-place increment stays after the return
RejectTotal_AfterCounting(message, mandate_id, entry) ==
    [ok |-> FALSE, message |-> message,
     write |-> <<mandate_id, [entry EXCEPT !.use_count = @ + 1]>>]

\* the return of the max_total check: nothing of usage was changed before it
RejectTotal(message, mandate_id, entry) == Reject(message)

\* the messages of the two limit checks at the merchant (ap2.py 178, 181)
MerchantLimitMessages ==
    [max_uses |-> <<"mandate_expired", "use count >= max_uses">>,
     max_total |-> <<"mandate_scope_mismatch", "cumulative spend would exceed max_total">>]

\* and at the payment processor (psp/main.py 90, 93)
PspLimitMessages ==
    [max_uses |-> <<"use count >= max_uses">>,
     max_total |-> <<"cumulative spend would exceed max_total">>]

\* the ledger read, the two limit checks and the ledger write
\* (ap2.py 175-185, psp/main.py 87-97: the same statements)
CheckAndReserve(usage, mandate_id, amount_cents, auth, messages) ==
    LET entry == UsageGet(usage, mandate_id)
    IN  IF UsesExceeded(entry, auth)
        THEN Reject(messages.max_uses)
        ELSE IF TotalExceeded(entry, amount_cents, auth)
        THEN RejectTotal(messages.max_total, mandate_id, entry)
        ELSE Accept(mandate_id,
                    [total_spent |-> entry.total_spent + amount_cents,
                     use_count |-> entry.use_count + 1])

\* merchant_ids and store_id not in merchant_ids
MerchantNotAllowed(auth, requesting) ==
    LET merchant_ids == Get(auth, "merchant_ids", <<>>)
    IN  Len(merchant_ids) > 0 /\ requesting \notin Range(merchant_ids)

\* a limit that refuses the amount equal to it
AmountExceeded_Inclusive(auth, amount_cents) ==
    Has(auth, "max_amount") /\ amount_cents >= auth.max_amount

\* max_amount is not None and amount_cents > max_amount
AmountExceeded(auth, amount_cents) ==
    Has(auth, "max_amount") /\ amount_cents > auth.max_amount

\* a check that lets a charge below the bound amount pass
KbAmountMismatch_Exceeds(kb_claims, amount_cents) ==
    Has(kb_claims, "amount") /\ amount_cents > kb_claims.amount

\* kb_amount is not None and kb_amount != amount_cents
KbAmountMismatch(kb_claims, amount_cents) ==
    Has(kb_claims, "amount") /\ kb_claims.amount # amount_cents

\* ================================================================ variables

VARIABLES
    site,           \* Spec: the process modelled, "merchant" or "psp"
    store_id,       \* Spec: the merchant identifier the merchant process passes
    now,            \* Spec: int(time.time())
    jwks_cache,     \* Spec: _platform_jwks_cache of the process
    intent_usage,   \* Spec: _intent_usage of the process
    pending,        \* Spec: bag of calls suspended in "await client.get(...)"
    ncalls,         \* Spec: number of calls started so far
    last,           \* Spec: the call that returned last: the ledger it read, what it returned
    accepted,       \* Spec: per mandate, how many presentations were accepted and their sum
    sdjwt_call,     \* SpecSdJwt: the arguments of one create/verify round
    sdjwt_result,   \* SpecSdJwt: what verify_sd_jwt_kb returned, or Pending
    checkout_call,  \* SpecCheckout: the arguments of one verify_checkout_mandate call
    checkout_result,\* SpecCheckout: what the call returned, or Pending
    checkout_replay,\* SpecCheckout: the second presentation and what it returned, or Pending
    sessions,       \* SpecPay: _sessions of the merchant process
    posts,          \* SpecPay: the POST /authorize exchanges, open and answered
    nposts,         \* SpecPay: number of POST /authorize requests sent so far
    detached_call,  \* SpecDetached: the arguments of one sign/verify round
    detached_result,\* SpecDetached: the outcome of the verification, or Pending
    canon_call,     \* SpecCanon: the two values handed to jcs_canonicalize
    canon_result    \* SpecCanon: the bytes returned for each, or Pending

siteVars == <<site, store_id, now, jwks_cache, intent_usage, pending, ncalls, last, accepted>>

sdjwtVars == <<sdjwt_call, sdjwt_result>>

checkoutVars == <<checkout_call, checkout_result, checkout_replay>>

payVars == <<sessions, posts, nposts>>

detachedVars == <<detached_call, detached_result>>

canonVars == <<canon_call, canon_result>>

vars == <<siteVars, sdjwtVars, checkoutVars, payVars, detachedVars, canonVars>>

Pending == [pending |-> TRUE]

Idle == [idle |-> TRUE]

\* the values the variables of Spec keep in the other specifications
SiteUnused ==
    /\ site = "none"
    /\ store_id = "none"
    /\ now = 0
    /\ jwks_cache = None
    /\ intent_usage = EmptyDict
    /\ pending = EmptyBag
    /\ ncalls = 0
    /\ last = Idle
    /\ accepted = EmptyDict

SdJwtUnused == sdjwt_call = Idle /\ sdjwt_result = Idle

CheckoutUnused == checkout_call = Idle /\ checkout_result = Idle /\ checkout_replay = Idle

PayUnused == sessions = EmptyDict /\ posts = {} /\ nposts = 0

DetachedUnused == detached_call = Idle /\ detached_result = Idle

CanonUnused == canon_call = Idle /\ canon_result = Idle

Jwk(private_key) == export_public_jwk(private_key, private_key)

\* ------------------------------------------------ the mandates presented

\* authorization envelopes, in cents
Authorizations ==
    <<[max_amount |-> 600, max_total |-> 1000, merchant_ids |-> <<>>],
      [max_amount |-> 500, max_uses |-> 2, merchant_ids |-> <<"m_1">>],
      [max_total |-> 1000, max_uses |-> 2, merchant_ids |-> <<"m_other">>]>>

\* lifetime of the mandates the platform issues at time 0
MandateTtl == 1

\* the platform issues an intent mandate for an agent holding HolderKey
IssueIntent(authorization, issuer_key, audience, extra_kb_claims, nonce) ==
    create_sd_jwt_kb_with_holder_key([authorization |-> authorization], issuer_key,
        "platform", HolderKey, Jwk(HolderKey), audience, "intent-mandate+sd-jwt",
        MandateTtl, extra_kb_claims, 0, nonce)

\* the platform issues a checkout mandate over a checkout of the merchant
IssueCheckout(checkout, audience) ==
    create_sd_jwt_kb_with_holder_key([checkout |-> checkout], PlatformKey,
        "platform", HolderKey, Jwk(HolderKey), audience, "checkout-mandate+sd-jwt",
        MandateTtl, EmptyDict, 0, "n1")

\* the credentials ever presented:
\*  1     envelope 1, bound to session cs_1
\*  2     the issuer token of 1 bound again, with an amount claim of 600
\*  3, 4  envelopes 2 and 3
\*  5     envelope 1 under an issuer token signed by somebody else's key
\*  6     the issuer token of 1 with the key-binding token of 3
\*  7     a checkout mandate of the platform for session cs_1: its issuer
\*        claims have a checkout and no authorization
MandatePool ==
    <<IssueIntent(Authorizations[1], PlatformKey, "cs_1", EmptyDict, "n1"),
      IssueIntent(Authorizations[1], PlatformKey, "cs_1", [amount |-> 600], "n2"),
      IssueIntent(Authorizations[2], PlatformKey, "cs_1", EmptyDict, "n1"),
      IssueIntent(Authorizations[3], PlatformKey, "cs_1", EmptyDict, "n1"),
      IssueIntent(Authorizations[1], OtherKey, "cs_1", EmptyDict, "n1"),
      <<IssueIntent(Authorizations[1], PlatformKey, "cs_1", EmptyDict, "n1")[1],
        IssueIntent(Authorizations[2], PlatformKey, "cs_1", EmptyDict, "n1")[2]>>,
      IssueCheckout([id |-> "cs_1", totals |-> [total |-> 5000]], "cs_1")>>

\* the distinct issuer tokens of the pool
IssuerJwts ==
    <<MandatePool[1][1], MandatePool[3][1], MandatePool[4][1], MandatePool[5][1],
      MandatePool[7][1]>>

\* hashlib.sha256(issuer_jwt.encode()).hexdigest()[:16]: SHA-256 being
\* ideal, the digest of an issuer token is its position among the tokens
MandateId(issuer_jwt) == CHOOSE i \in DOMAIN IssuerJwts : IssuerJwts[i] = issuer_jwt

\* a ledger key taken from the whole credential, key-binding token included:
\* every binding of a mandate has a key of its own
LedgerKey_PerBinding(mandate_str) ==
    Len(IssuerJwts) + (CHOOSE i \in DOMAIN MandatePool : MandatePool[i] = mandate_str)

\* issuer_jwt = parts[0]; mandate_id = sha256(issuer_jwt.encode()).hexdigest()[:16]
LedgerKey(mandate_str) == MandateId(mandate_str[1])

\* ---------------------------------------------------- verify_checkout_mandate

\* d.get("totals", {}).get("total"): <<>> for None, else the total
TotalOf(d) ==
    LET totals == Get(d, "totals", EmptyDict)
    IN  IF Has(totals, "total") THEN <<totals.total>> ELSE <<>>

TotalMismatch_Skipped(embedded_checkout, session_dict) == FALSE

\* embedded_total != session_total
TotalMismatch(embedded_checkout, session_dict) ==
    TotalOf(embedded_checkout) # TotalOf(session_dict)

\* not embedded_ap2.get("merchant_authorization")
MerchantAuthorizationMissing(embedded_checkout) ==
    LET embedded_ap2 == Get(embedded_checkout, "ap2", EmptyDict)
    IN  ~Has(embedded_ap2, "merchant_authorization")
            \/ embedded_ap2.merchant_authorization = <<>>

\* jwks is what _fetch_platform_jwks returned
verify_checkout_mandate(jwks, mandate_str, session_dict, t) ==
    LET keys == Get(jwks, "keys", <<>>)
    IN  IF Len(keys) = 0
        THEN Reject(<<"Cannot fetch platform signing keys">>)
        ELSE LET session_id == Get(session_dict, "id", "")
                 v == verify_sd_jwt_kb(mandate_str, keys[1], <<session_id>>, t)
             IN  IF ~v.ok
                 THEN Reject(<<"mandate_invalid_signature", v.err>>)
                 ELSE LET embedded_checkout == Get(v.value, "checkout", EmptyDict)
                      IN  IF embedded_checkout = EmptyDict
                          THEN Reject(<<"mandate_scope_mismatch", "no checkout in mandate">>)
                          ELSE IF ~(Has(embedded_checkout, "id")
                                      /\ embedded_checkout.id = session_id)
                          THEN Reject(<<"mandate_scope_mismatch", "session ID mismatch">>)
                          ELSE IF TotalMismatch(embedded_checkout, session_dict)
                          THEN Reject(<<"mandate_scope_mismatch", "total mismatch">>)
                          ELSE IF MerchantAuthorizationMissing(embedded_checkout)
                          THEN Reject(<<"merchant_authorization_missing in mandate">>)
                          ELSE LET own == verify_own_merchant_authorization(embedded_checkout)
                               IN  IF own.raised
                                   THEN Reject(<<"raise", own.exc>>)
                                   ELSE IF ~own.value
                                   THEN Reject(<<"merchant_authorization_invalid in mandate">>)
                                   ELSE AcceptUncounted

\* ------------------------------------------- verify_intent_mandate, merchant

\* the ledger part of verify_intent_mandate: lines 159-187; verify_jwt
\* raising there would leave the coroutine as an uncaught ValueError
MerchantLedgerStep(usage, mandate_str, claims, auth, amount_cents) ==
    IF Len(mandate_str) = 2 /\ Has(Get(claims, "cnf", EmptyDict), "jwk")
    THEN LET kb == verify_jwt(mandate_str[2], claims.cnf.jwk)
         IN  IF ~kb.ok
             THEN Reject(<<"raise ValueError", kb.err>>)
             ELSE IF KbAmountMismatch(kb.value, amount_cents)
             THEN Reject(<<"mandate_scope_mismatch", "kb amount != session amount">>)
             ELSE CheckAndReserve(usage, LedgerKey(mandate_str), amount_cents, auth,
                                  MerchantLimitMessages)
    ELSE AcceptUncounted

\* jwks is what _fetch_platform_jwks returned and usage the ledger as read
verify_intent_mandate(jwks, usage, mandate_str, session_dict, requesting, t) ==
    LET keys == Get(jwks, "keys", <<>>)
    IN  IF Len(keys) = 0
        THEN Reject(<<"Cannot fetch platform signing keys">>)
        ELSE LET session_id == Get(session_dict, "id", "")
                 v == verify_sd_jwt_kb(mandate_str, keys[1], <<session_id>>, t)
             IN  IF ~v.ok
                 THEN Reject(<<"mandate_invalid_signature", v.err>>)
                 ELSE LET claims == v.value
                          auth == Get(claims, "authorization", EmptyDict)
                          session_total == Get(Get(session_dict, "totals", EmptyDict), "total", 0)
                          amount_cents == AmountCents(session_total)
                      IN  IF MerchantNotAllowed(auth, requesting)
                          THEN Reject(<<"mandate_scope_mismatch", "store not in authorized merchants">>)
                          ELSE IF AmountExceeded(auth, amount_cents)
                          THEN Reject(<<"mandate_scope_mismatch", "amount exceeds max_amount">>)
                          ELSE MerchantLedgerStep(usage, mandate_str, claims, auth, amount_cents)

\* ------------------------------------------------ _verify_intent_mandate, PSP

\* exp = claims.get("exp", 0); time.time() >= exp
PspExpired(claims, t) == t >= Get(claims, "exp", 0)

psp_verify_intent_mandate(jwks, usage, mandate_str, amount, t) ==
    LET keys == Get(jwks, "keys", <<>>)
    IN  IF Len(keys) = 0
        THEN Reject(<<"Cannot fetch platform signing keys">>)
        ELSE LET v == verify_sd_jwt_kb(mandate_str, keys[1], <<>>, t)
             IN  IF ~v.ok
                 THEN Reject(<<"mandate_invalid_signature", v.err>>)
                 ELSE LET claims == v.value
                          auth == Get(claims, "authorization", EmptyDict)
                          amount_cents == AmountCents(amount)
                      IN  IF PspExpired(claims, t)
                          THEN Reject(<<"mandate_expired">>)
                          ELSE IF AmountExceeded(auth, amount_cents)
                          THEN Reject(<<"amount exceeds max_amount">>)
                          ELSE IF Len(mandate_str) = 2
                          THEN CheckAndReserve(usage, LedgerKey(mandate_str), amount_cents,
                                               auth, PspLimitMessages)
                          ELSE AcceptUncounted

\* ----------------------------------------------------- _fetch_platform_jwks

\* what the key endpoint can answer to one GET: a failure (connection error,
\* timeout, HTTP error status, unparsable body) or a JSON body
FetchError == [status |-> "error"]

FetchOk(body) == [status |-> "ok", body |-> body]

PlatformJwks == [keys |-> <<Jwk(PlatformKey)>>]

Responses == {FetchError, FetchOk(PlatformJwks), FetchOk([keys |-> <<>>])}

\* the value _fetch_platform_jwks returns after the await
FetchReturnValue(response) ==
    IF response.status = "ok" THEN response.body ELSE [keys |-> <<>>]

\* a fetch that caches the empty key set it returns after a failure
CacheAfterFetch_CachesFailure(cache, response) == FetchReturnValue(response)

\* the cache after the await
CacheAfterFetch(cache, response) ==
    IF response.status = "ok" THEN response.body ELSE cache

\* ============================================ Spec: one verification process
\* One process (the merchant's or the payment processor's) serving intent-
\* mandate presentations on its asyncio event loop.  A coroutine runs without
\* interruption between awaits, and the only await of a verification call is
\* the key fetch: a call that finds the cache filled runs to its return in
\* one step; a call that finds it empty is suspended in client.get and runs
\* from the response to its return in one step.

Sites == {"merchant", "psp"}

\* the merchant process is the store "m_1"
StoreIds == {"m_1"}

Session(id, total) == [id |-> id, totals |-> [total |-> total]]

\* the presentations made to the merchant: two mandates with limits (one of
\* them bound twice) at two totals, in thousandths of the currency unit (the
\* larger is above the max_amount of the second), and one presentation for
\* each other check that precedes the ledger: a forged issuer signature, a
\* key-binding token of another mandate, a session other than the one the
\* mandate is bound to, a mandate for another merchant
MerchantCalls ==
    [mandate : {1, 2, 3}, session : {Session("cs_1", 5000), Session("cs_1", 6004)}]
    \cup {[mandate |-> 5, session |-> Session("cs_1", 5000)],
          [mandate |-> 6, session |-> Session("cs_1", 5000)],
          [mandate |-> 1, session |-> Session("cs_2", 5000)],
          [mandate |-> 4, session |-> Session("cs_1", 5000)],
          [mandate |-> 7, session |-> Session("cs_1", 5000)]}

\* the authorize requests made to the payment processor: request.amount
PspCalls ==
    [mandate : {1, 2, 3}, amount : {5000, 6004}]
    \cup {[mandate |-> 5, amount |-> 5000],
          [mandate |-> 6, amount |-> 5000],
          [mandate |-> 4, amount |-> 5000],
          [mandate |-> 7, amount |-> 5000]}

\* the arguments of a verification call at process s
Calls(s) == IF s = "merchant" THEN MerchantCalls ELSE PspCalls

\* the transaction total of a call
CallTotal(c) == IF Has(c, "session") THEN c.session.totals.total ELSE c.amount

\* a caller that read the ledger before awaiting the key fetch: the cache
\* was empty then, so no presentation had been accepted and the ledger read
\* is the empty one
UsageReadOnResume_BeforeAwait(usage) == EmptyDict

\* the ledger a call resumed from the key fetch reads: the read (ap2.py 175,
\* psp/main.py 87) follows the await, so it is the ledger of that moment
UsageReadOnResume(usage) == usage

\* _intent_usage[mandate_id] = usage
\* a write that leaves the ledger holding the written entry only
Put_OnlyThis(usage, mandate_id, entry) == [k \in {mandate_id} |-> entry]

\* _intent_usage[mandate_id] = usage
Put(usage, mandate_id, entry) ==
    [k \in DOMAIN usage \cup {mandate_id} |-> IF k = mandate_id THEN entry ELSE usage[k]]

Verify(c, jwks, usage) ==
    IF site = "merchant"
    THEN verify_intent_mandate(jwks, usage, MandatePool[c.mandate], c.session, store_id, now)
    ELSE psp_verify_intent_mandate(jwks, usage, MandatePool[c.mandate], c.amount, now)

\* the call runs from where it has its key set to its return
Return(c, jwks, usage_read, resumed, fetch) ==
    LET out == Verify(c, jwks, usage_read)
        mid == MandateId(MandatePool[c.mandate][1])
        sofar == Get(accepted, mid, [count |-> 0, sum |-> 0])
    IN  /\ intent_usage' = IF Len(out.write) = 0 THEN intent_usage
                           ELSE Put(intent_usage, out.write[1], out.write[2])
        /\ last' = [seq |-> ncalls' - BagCardinality(pending'), call |-> c,
                    resumed |-> resumed, fetch |-> fetch, jwks |-> jwks,
                    usage |-> usage_read, out |-> out]
        /\ accepted' = IF out.ok
                       THEN [k \in DOMAIN accepted \cup {mid} |->
                                IF k = mid
                                THEN [count |-> sofar.count + 1,
                                      sum |-> sofar.sum + AmountCents(CallTotal(c))]
                                ELSE accepted[k]]
                       ELSE accepted

Init ==
    /\ site \in Sites
    /\ store_id \in (IF site = "merchant" THEN StoreIds ELSE {"none"})
    /\ now = 0
    /\ jwks_cache = None
    /\ intent_usage = EmptyDict
    /\ pending = EmptyBag
    /\ ncalls = 0
    /\ last = Idle
    /\ accepted = EmptyDict
    /\ SdJwtUnused
    /\ CheckoutUnused
    /\ PayUnused
    /\ DetachedUnused
    /\ CanonUnused

\* a presentation arrives while the key cache is filled
VerifyCached(c) ==
    /\ ncalls < MaxCalls
    /\ jwks_cache # None
    /\ ncalls' = ncalls + 1
    /\ UNCHANGED <<site, store_id, now, jwks_cache, pending, sdjwtVars, checkoutVars, payVars, detachedVars, canonVars>>
    /\ Return(c, jwks_cache, intent_usage, FALSE, "cached")

\* a presentation arrives while the key cache is empty: GET sent, call suspended
VerifyAwaitFetch(c) ==
    /\ ncalls < MaxCalls
    /\ jwks_cache = None
    /\ BagCardinality(pending) < MaxPending
    /\ ncalls' = ncalls + 1
    /\ pending' = pending (+) SetToBag({c})
    /\ UNCHANGED <<site, store_id, now, jwks_cache, intent_usage, last, accepted, sdjwtVars, checkoutVars, payVars, detachedVars, canonVars>>

\* the GET of a suspended call ends; the call runs to its return
FetchReturns(c, response) ==
    /\ BagIn(c, pending)
    /\ pending' = pending (-) SetToBag({c})
    /\ jwks_cache' = CacheAfterFetch(jwks_cache, response)
    /\ UNCHANGED <<site, store_id, now, ncalls, sdjwtVars, checkoutVars, payVars, detachedVars, canonVars>>
    /\ Return(c, FetchReturnValue(response), UsageReadOnResume(intent_usage), TRUE,
              response.status)

Tick ==
    /\ now < MaxNow
    /\ now' = now + 1
    /\ UNCHANGED <<site, store_id, jwks_cache, intent_usage, pending, ncalls, last, accepted, sdjwtVars, checkoutVars, payVars, detachedVars, canonVars>>

Next ==
    \/ \E c \in Calls(site) : VerifyCached(c)
    \/ \E c \in Calls(site) : VerifyAwaitFetch(c)
    \/ \E c \in Calls(site), response \in Responses : FetchReturns(c, response)
    \/ Tick

Spec == Init /\ [][Next]_vars

\* httpx.AsyncClient(timeout=10.0): a GET that is outstanding ends, with a
\* response or with the exception the timeout raises
SpecTimeout ==
    Spec /\ WF_vars(\E c \in Calls(site), response \in Responses : FetchReturns(c, response))


\* ====================================================== SpecSdJwt: SD-JWT+kb
\* One credential is built (by one of the two constructors, or assembled from
\* create_jwt tokens by a party holding kb_key) at time 0 and verified at
\* time t_verify.

SdKeys == {PlatformKey, HolderKey, OtherKey}

SdAudiences == {"cs_1", "cs_2"}

SdClaims ==
    <<[sub |-> "agent_1"],
      [authorization |-> [max_amount |-> 600, max_uses |-> 2]],
      [sub |-> "agent_1", exp |-> 99]>>

SdExtraKbClaims == <<EmptyDict, [amount |-> 600]>>

\* the issuer token of a call, built at time 0
SdIssuerJwt(c, claims) ==
    create_jwt(IssuerHeader("vc+sd-jwt", c.issuer_key),
               IF c.cnf = "holder"
               THEN IssuerPayload(claims, Jwk(c.holder_key), c.ttl, 0)
               ELSE Without(IssuerPayload(claims, Jwk(c.holder_key), c.ttl, 0), "cnf"),
               c.issuer_key)

\* a credential put together from an issuer token and a key-binding token
\* that kb_key's owner signed for this issuer token or for another one
Assembled(c) ==
    LET issuer_jwt == SdIssuerJwt(c, SdClaims[c.claims])
        other_jwt == SdIssuerJwt(c, [sub |-> "agent_2"])
        bound_to == IF c.kb_for = "this" THEN issuer_jwt ELSE other_jwt
    IN  <<issuer_jwt,
          create_jwt(KbHeader, KbPayload(c.audience, 0, "n1", bound_to), c.kb_key)>>

SdCredential(c) ==
    CASE c.ctor = "create_sd_jwt_kb" ->
            create_sd_jwt_kb(SdClaims[c.claims], c.issuer_key, c.issuer_key,
                             Jwk(c.holder_key), c.audience, "vc+sd-jwt", c.ttl, 0, "n1")
      [] c.ctor = "create_sd_jwt_kb_with_holder_key" ->
            create_sd_jwt_kb_with_holder_key(SdClaims[c.claims], c.issuer_key, c.issuer_key,
                             c.holder_key, Jwk(c.holder_key), c.audience, "vc+sd-jwt",
                             c.ttl, SdExtraKbClaims[c.extra], 0, "n1")
      [] OTHER -> Assembled(c)

SdCalls ==
    { c \in [ctor : {"create_sd_jwt_kb", "create_sd_jwt_kb_with_holder_key", "assembled"},
             claims : DOMAIN SdClaims,
             issuer_key : {PlatformKey, OtherKey},
             holder_key : {PlatformKey, HolderKey},
             audience : SdAudiences,
             ttl : 1..MaxNow,
             extra : DOMAIN SdExtraKbClaims,
             kb_key : SdKeys,
             kb_for : {"this", "other"},
             cnf : {"holder", "absent"},
             verify_key : {PlatformKey, OtherKey},
             expected_aud : {<<>>} \cup {<<a>> : a \in SdAudiences},
             t_verify : 0..MaxNow] :
        /\ c.ctor # "create_sd_jwt_kb_with_holder_key" => c.extra = 1
        /\ c.ctor # "assembled" =>
              c.kb_key = PlatformKey /\ c.kb_for = "this" /\ c.cnf = "holder" }

SdInit ==
    /\ sdjwt_call \in SdCalls
    /\ sdjwt_result = Pending
    /\ SiteUnused
    /\ CheckoutUnused
    /\ PayUnused
    /\ DetachedUnused
    /\ CanonUnused

VerifySdJwtKb ==
    /\ sdjwt_result = Pending
    /\ sdjwt_result' = verify_sd_jwt_kb(SdCredential(sdjwt_call), Jwk(sdjwt_call.verify_key),
                                        sdjwt_call.expected_aud, sdjwt_call.t_verify)
    /\ UNCHANGED sdjwt_call
    /\ UNCHANGED <<siteVars, checkoutVars, payVars, detachedVars, canonVars>>

SdNext == VerifySdJwtKb

SpecSdJwt == SdInit /\ [][SdNext]_vars

\* ------------------------------------------------------- SpecSdJwt: claims

SdDone == sdjwt_result # Pending

\* the private key that signed the key-binding token of call c
SdKbSigner(c) ==
    CASE c.ctor = "create_sd_jwt_kb" -> c.issuer_key
      [] c.ctor = "create_sd_jwt_kb_with_holder_key" -> c.holder_key
      [] OTHER -> c.kb_key

\* the verifier is given the issuer's public key and the credential has not
\* expired by the verifier's test
SdIssuerAccepted(c) == c.verify_key = c.issuer_key /\ c.t_verify <= c.ttl

\* verification before expiry, under the issuer's key and the creation audience
SdRoundTripCall(c) ==
    /\ c.ctor \in {"create_sd_jwt_kb", "create_sd_jwt_kb_with_holder_key"}
    /\ c.verify_key = c.issuer_key
    /\ c.expected_aud = <<c.audience>>
    /\ c.t_verify < c.ttl

C9_ProofOfPossession ==
    SdDone =>
        LET cred == SdCredential(sdjwt_call)
            issuer_claims == cred[1][2]
            kb_jwt == cred[2]
            has_cnf == Has(issuer_claims, "cnf") /\ Has(issuer_claims.cnf, "jwk")
        IN  /\ sdjwt_result.ok =>
                  /\ has_cnf
                  /\ kb_jwt[3] = <<"sig", <<issuer_claims.cnf.jwk.x, issuer_claims.cnf.jwk.y>>,
                                  <<kb_jwt[1], kb_jwt[2]>> >>
                  /\ SdKbSigner(sdjwt_call) = sdjwt_call.holder_key
            /\ (has_cnf /\ SdKbSigner(sdjwt_call) # sdjwt_call.holder_key
                        /\ SdIssuerAccepted(sdjwt_call)) =>
                  sdjwt_result = Err("signature_invalid")
            /\ ~has_cnf => ~sdjwt_result.ok
            /\ (~has_cnf /\ SdIssuerAccepted(sdjwt_call)) =>
                  sdjwt_result = Err("missing_binding_key")

\* a key-binding token signed with the issuer's own key while cnf names the
\* holder's key
C9_Witness ==
    /\ SdDone
    /\ sdjwt_call.ctor = "assembled"
    /\ sdjwt_call.cnf = "holder"
    /\ sdjwt_call.holder_key = HolderKey
    /\ sdjwt_call.issuer_key = PlatformKey
    /\ sdjwt_call.kb_key = PlatformKey
    /\ sdjwt_call.kb_for = "this"
    /\ sdjwt_call.expected_aud = <<sdjwt_call.audience>>
    /\ SdIssuerAccepted(sdjwt_call)
    /\ sdjwt_result = Err("signature_invalid")

\* the checks that precede the audience check all pass
SdPassesUpToKeyBinding(c) ==
    /\ SdIssuerAccepted(c)
    /\ c.cnf = "holder"
    /\ SdKbSigner(c) = c.holder_key

\* C10: with an expected audience, verification fails with audience_mismatch
\* unless the key-binding token's aud equals it exactly; with expected
\* audience None the check is skipped: the outcome is the one obtained when
\* the expected audience is the token's own aud, whatever that aud is.
C10_AudienceBinding ==
    SdDone =>
        LET cred == SdCredential(sdjwt_call)
            kb_aud == cred[2][2].aud
            expected == sdjwt_call.expected_aud
        IN  /\ (Len(expected) = 1 /\ sdjwt_result.ok) => kb_aud = expected[1]
            /\ (Len(expected) = 1 /\ kb_aud # expected[1]
                    /\ SdPassesUpToKeyBinding(sdjwt_call)) =>
                  sdjwt_result = Err("audience_mismatch")
            /\ (Len(expected) = 1 /\ kb_aud = expected[1]) =>
                  (sdjwt_result.ok \/ sdjwt_result.err # "audience_mismatch")
            /\ Len(expected) = 0 =>
                  /\ sdjwt_result = verify_sd_jwt_kb(cred, Jwk(sdjwt_call.verify_key),
                                                     <<kb_aud>>, sdjwt_call.t_verify)
                  /\ (SdPassesUpToKeyBinding(sdjwt_call) /\ sdjwt_call.kb_for = "this") =>
                        sdjwt_result.ok

\* a credential created for cs_1 and verified with expected audience cs_2
C10_Witness ==
    /\ SdDone
    /\ sdjwt_call.ctor = "create_sd_jwt_kb_with_holder_key"
    /\ sdjwt_call.audience = "cs_1"
    /\ sdjwt_call.expected_aud = <<"cs_2">>
    /\ sdjwt_result = Err("audience_mismatch")

\* the audience check passes or is skipped
SdAudienceAccepted(c) == c.expected_aud \in {<<>>, <<c.audience>>}

\* C11: verification fails with binding_hash_mismatch unless the sd_hash of
\* the key-binding token is the hash of the issuer token presented: an
\* accepted credential carries that hash, and an issuer token presented with
\* a key-binding token that the holder signed, for the same audience, over
\* another issuer token is refused with binding_hash_mismatch.
C11_BindingHash ==
    SdDone =>
        LET cred == SdCredential(sdjwt_call)
            kb_claims == cred[2][2]
            bound == Has(kb_claims, "sd_hash") /\ kb_claims.sd_hash = <<"sha256", cred[1]>>
        IN  /\ sdjwt_result.ok => bound
            /\ (~bound /\ SdPassesUpToKeyBinding(sdjwt_call) /\ SdAudienceAccepted(sdjwt_call))
                  => sdjwt_result = Err("binding_hash_mismatch")
            /\ bound => (sdjwt_result.ok \/ sdjwt_result.err # "binding_hash_mismatch")
            /\ sdjwt_call.kb_for = "other" => ~bound

\* issuer token I1 with a key-binding token the holder signed over I2
C11_Witness ==
    /\ SdDone
    /\ sdjwt_call.ctor = "assembled"
    /\ sdjwt_call.kb_for = "other"
    /\ sdjwt_call.kb_key = sdjwt_call.holder_key
    /\ sdjwt_call.cnf = "holder"
    /\ sdjwt_call.expected_aud = <<sdjwt_call.audience>>
    /\ SdIssuerAccepted(sdjwt_call)
    /\ sdjwt_result = Err("binding_hash_mismatch")

\* the credential's exp lies in the past at the time of verification
SdExpInPast(c) == c.ttl < c.t_verify

\* C13 as stated: a credential whose exp is in the past always yields
\* expired, whether its issuer signature is valid or invalid.
C13_ExpiredRegardlessOfSignature ==
    (SdDone /\ SdExpInPast(sdjwt_call)) => sdjwt_result = Err("expired")

\* C13 amended: a credential whose exp is in the past yields expired when its
\* issuer signature verifies under the presented issuer key, whatever the
\* state of its binding key, key-binding signature, audience and binding
\* hash; when the issuer signature does not verify it yields
\* signature_invalid, the signature being checked before the expiration.
C13_ExpiredAfterIssuerSignature ==
    (SdDone /\ SdExpInPast(sdjwt_call)) =>
        /\ sdjwt_call.verify_key = sdjwt_call.issuer_key => sdjwt_result = Err("expired")
        /\ sdjwt_call.verify_key # sdjwt_call.issuer_key =>
                sdjwt_result = Err("signature_invalid")

\* an outdated credential with a valid issuer signature and a key-binding
\* token signed by somebody else than the holder: expired
C13_Witness ==
    /\ SdDone
    /\ SdExpInPast(sdjwt_call)
    /\ sdjwt_call.verify_key = sdjwt_call.issuer_key
    /\ sdjwt_call.ctor = "assembled"
    /\ sdjwt_call.kb_key # sdjwt_call.holder_key
    /\ sdjwt_result = Err("expired")


\* ===================================================== the ledger, under Spec

\* the failure kind a message of the two verifiers stands for
FailureKind(message) ==
    LET text == message[Len(message)]
    IN  IF message = <<>> THEN "none"
        ELSE IF text = "Cannot fetch platform signing keys" THEN "key_source_unavailable"
        ELSE IF message[1] = "mandate_invalid_signature" THEN text
        ELSE IF message = <<"mandate_expired">> THEN "expired"
        ELSE IF text = "use count >= max_uses" THEN "limit_exceeded_uses"
        ELSE IF text = "cumulative spend would exceed max_total" THEN "limit_exceeded_total"
        ELSE IF text \in {"store not in authorized merchants", "amount exceeds max_amount",
                          "kb amount != session amount", "no checkout in mandate",
                          "session ID mismatch", "total mismatch"} THEN "scope_mismatch"
        ELSE IF text = "merchant_authorization_missing in mandate"
        THEN "merchant_authorization_missing"
        ELSE IF text = "merchant_authorization_invalid in mandate"
        THEN "merchant_authorization_invalid"
        ELSE "exception"

\* the authorization envelope of the mandate with this identifier
AuthOf(mandate_id) == Get(IssuerJwts[mandate_id][2], "authorization", EmptyDict)

Returned == last # Idle

Rejected == Returned /\ ~last.out.ok

LastKind == FailureKind(last.out.message)

\* of the call that returned last: its mandate, the envelope, the amount in
\* cents, the ledger entry it read
LastMandateId == MandateId(MandatePool[last.call.mandate][1])

LastAuth == AuthOf(LastMandateId)

LastAmount == AmountCents(CallTotal(last.call))

LastEntry == UsageGet(last.usage, LastMandateId)

\* the call passed every check that precedes the ledger
LastReachedLedger ==
    /\ Returned
    /\ \/ last.out.ok /\ Len(last.out.write) = 2
       \/ Rejected /\ LastKind \in {"limit_exceeded_uses", "limit_exceeded_total"}

\* the call left the ledger with one more use of its mandate, of its amount
LastReserved ==
    /\ last.out.ok
    /\ intent_usage = Put(last.usage, LastMandateId,
                          [total_spent |-> LastEntry.total_spent + LastAmount,
                           use_count |-> LastEntry.use_count + 1])

\* C1: whatever the interleaving of the calls at one site, the presentations
\* accepted for a mandate are at most max_uses and their amounts sum to at
\* most max_total, and the ledger entry of the mandate is exactly their count
\* and their sum: no read-check-write of a call is cut by that of another.
C1_ConcurrentPresentations ==
    \A mandate_id \in DOMAIN accepted :
        LET auth == AuthOf(mandate_id)
        IN  /\ Has(auth, "max_uses") => accepted[mandate_id].count <= auth.max_uses
            /\ Has(auth, "max_total") => accepted[mandate_id].sum <= auth.max_total
            /\ Has(intent_usage, mandate_id)
            /\ intent_usage[mandate_id] = [total_spent |-> accepted[mandate_id].sum,
                                           use_count |-> accepted[mandate_id].count]

\* two presentations of one mandate were suspended in the key fetch together;
\* the first to resume was accepted and the second met the limit it left
C1_Witness ==
    /\ Returned
    /\ last.resumed
    /\ last.seq = 2
    /\ Rejected
    /\ LastKind = "limit_exceeded_total"
    /\ accepted[LastMandateId].count = 1

\* C3: with max_uses = N the use_count of the ledger never exceeds N; a
\* presentation made at use_count >= N is rejected, by the max_uses check
\* when it passes the checks before the ledger, and one made at use_count < N
\* that passes every other check is accepted and counted.
C3_MaxUses ==
    /\ \A mandate_id \in DOMAIN intent_usage :
           Has(AuthOf(mandate_id), "max_uses")
               => intent_usage[mandate_id].use_count <= AuthOf(mandate_id).max_uses
    /\ (Returned /\ Has(LastAuth, "max_uses")) =>
           /\ LastEntry.use_count >= LastAuth.max_uses => Rejected
           /\ (LastReachedLedger /\ LastEntry.use_count >= LastAuth.max_uses)
                  => LastKind = "limit_exceeded_uses"
           /\ (/\ LastReachedLedger
               /\ LastEntry.use_count < LastAuth.max_uses
               /\ Has(LastAuth, "max_total")
                      => LastEntry.total_spent + LastAmount <= LastAuth.max_total)
                  => LastReserved

\* the third of three presentations of a mandate with max_uses = 2, after
\* two that were accepted
C3_Witness ==
    /\ Returned
    /\ last.seq = 3
    /\ Has(LastAuth, "max_uses") /\ LastAuth.max_uses = 2
    /\ LastEntry.use_count = 2
    /\ Rejected
    /\ LastKind = "limit_exceeded_uses"
    /\ accepted[LastMandateId].count = 2

\* C4: with max_total = T the total_spent of the ledger never exceeds T; a
\* presentation with total_spent + amount > T is rejected, by the max_total
\* check when it passes the checks before it, and one with
\* total_spent + amount <= T that passes every other check is accepted and
\* its amount added.
C4_MaxTotal ==
    /\ \A mandate_id \in DOMAIN intent_usage :
           Has(AuthOf(mandate_id), "max_total")
               => intent_usage[mandate_id].total_spent <= AuthOf(mandate_id).max_total
    /\ (Returned /\ Has(LastAuth, "max_total")) =>
           /\ LastEntry.total_spent + LastAmount > LastAuth.max_total => Rejected
           /\ (/\ LastReachedLedger
               /\ Has(LastAuth, "max_uses") => LastEntry.use_count < LastAuth.max_uses
               /\ LastEntry.total_spent + LastAmount > LastAuth.max_total)
                  => LastKind = "limit_exceeded_total"
           /\ (/\ LastReachedLedger
               /\ Has(LastAuth, "max_uses") => LastEntry.use_count < LastAuth.max_uses
               /\ LastEntry.total_spent + LastAmount <= LastAuth.max_total)
                  => LastReserved

\* max_total = 1000: 600 cents were reserved, a presentation of 500 is rejected
C4_Witness ==
    /\ Returned
    /\ Has(LastAuth, "max_total") /\ LastAuth.max_total = 1000
    /\ LastEntry.total_spent = 600
    /\ LastAmount = 500
    /\ Rejected
    /\ LastKind = "limit_exceeded_total"

\* a reservation that brings total_spent to max_total exactly
C4_EqualityAccepted ==
    /\ Returned
    /\ last.out.ok
    /\ Has(LastAuth, "max_total")
    /\ LastEntry.total_spent + LastAmount = LastAuth.max_total

\* C5: a presentation that is rejected, whatever the reason, leaves the whole
\* ledger as the call found it.
C5_RejectionLeavesLedger == Rejected => intent_usage = last.usage

\* a presentation rejected by the merchant allow-list, at a site whose ledger
\* holds an entry
C5_Witness ==
    /\ Rejected
    /\ last.out.message = <<"mandate_scope_mismatch", "store not in authorized merchants">>
    /\ DOMAIN last.usage # {}

\* C6: for the same mandate, amount, requesting merchant, clock and prior
\* ledger, and a session id equal to the key-binding aud, the merchant and
\* the payment processor return the same outcome and write the same entry.
C6_SameSemanticsAtBothSites ==
    [][(/\ site = "merchant"
        /\ last' # last
        /\ last'.call.session.id = "cs_1"
        /\ FailureKind(last'.out.message) # "key_source_unavailable")
       => LET psp == psp_verify_intent_mandate(PlatformJwks, last'.usage,
                         MandatePool[last'.call.mandate], CallTotal(last'.call), now)
          IN  psp.ok = last'.out.ok /\ psp.write = last'.out.write]_vars

\* the exp claim of the issuer token a call presents
ExpOf(c) == MandatePool[c.mandate][1][2].exp

\* C12: at every verification site a mandate presented at a time t >= exp is
\* rejected: no call that returns at t >= exp accepts, in particular none
\* at t = exp.
C12_ExpiryBoundary ==
    [][(last' # last /\ now >= ExpOf(last'.call)) => ~last'.out.ok]_vars

\* the last part of the message of the call that returned last, "" if none
LastText ==
    IF Len(last.out.message) = 0 THEN "" ELSE last.out.message[Len(last.out.message)]

\* the call was not stopped by a check that precedes the max_amount check
LastPassedToAmountCheck ==
    \/ last.out.ok
    \/ LastText \in {"amount exceeds max_amount", "kb amount != session amount",
                     "use count >= max_uses", "cumulative spend would exceed max_total"}
    \/ last.out.message[1] = "raise ValueError"

LastOverMaxAmount == Has(LastAuth, "max_amount") /\ LastAmount > LastAuth.max_amount

\* C21: at both sites a presentation whose amount in cents is greater than a
\* set max_amount is never accepted and, once it has passed the checks before
\* this one, is rejected by this check with scope_mismatch; this check
\* rejects no presentation whose amount is equal to or below max_amount and
\* none of a mandate without max_amount.
C21_PerTransactionLimit ==
    Returned =>
        /\ LastOverMaxAmount => Rejected
        /\ (LastOverMaxAmount /\ LastPassedToAmountCheck)
               => /\ LastText = "amount exceeds max_amount"
                  /\ LastKind = "scope_mismatch"
                  /\ last.out.write = <<>>
        /\ LastText = "amount exceeds max_amount" => LastOverMaxAmount

\* 600 cents presented under max_amount = 500
C21_Witness ==
    /\ Returned
    /\ Has(LastAuth, "max_amount") /\ LastAuth.max_amount = 500
    /\ LastAmount = 600
    /\ Rejected
    /\ LastText = "amount exceeds max_amount"

\* 600 cents presented under max_amount = 600 passes the max_amount check
C21_EqualAccepted ==
    /\ Returned
    /\ Has(LastAuth, "max_amount") /\ LastAuth.max_amount = 600
    /\ LastAmount = 600
    /\ last.out.ok

\* the claims of the key-binding token the last call presented
LastKbClaims == MandatePool[last.call.mandate][2][2]

LastKbAmountDiffers ==
    Has(LastKbClaims, "amount") /\ LastKbClaims.amount # LastAmount

\* the call was not stopped by a check that precedes the kb amount check
LastPassedToKbAmountCheck ==
    \/ last.out.ok
    \/ LastText \in {"kb amount != session amount", "use count >= max_uses",
                     "cumulative spend would exceed max_total"}

\* C22: in verify_intent_mandate a presentation whose key-binding token
\* carries an amount claim other than the amount in cents is never accepted
\* and, once it has passed the checks before this one, is rejected by this
\* check with scope_mismatch, writing nothing to the ledger, which is left as
\* the call found it; the check rejects no presentation whose key-binding
\* token carries the amount in cents or no amount claim.
C22_KbAmount ==
    (Returned /\ site = "merchant") =>
        /\ LastKbAmountDiffers => Rejected
        /\ (LastKbAmountDiffers /\ LastPassedToKbAmountCheck)
               => /\ LastText = "kb amount != session amount"
                  /\ LastKind = "scope_mismatch"
                  /\ last.out.write = <<>>
                  /\ intent_usage = last.usage
        /\ LastText = "kb amount != session amount" => LastKbAmountDiffers

\* a key-binding token with amount 600 presented for 500 cents, after the
\* mandate has been used
C22_Witness ==
    /\ Returned /\ site = "merchant"
    /\ Has(LastKbClaims, "amount") /\ LastKbClaims.amount = 600
    /\ LastAmount = 500
    /\ Rejected
    /\ LastText = "kb amount != session amount"
    /\ Has(last.usage, LastMandateId)

\* the same key-binding token presented for 600 cents is accepted
C22_EqualAccepted ==
    /\ Returned /\ site = "merchant"
    /\ Has(LastKbClaims, "amount") /\ LastKbClaims.amount = LastAmount
    /\ last.out.ok

\* C24: the ledger is exact.  It has an entry for exactly the mandates with
\* at least one accepted presentation; the entry's use_count is the number
\* of accepted presentations of the mandate and its total_spent the sum of
\* their amounts in cents; an accepted presentation adds 1 and its amount to
\* the entry of its mandate and leaves every other entry as it was.
C24_LedgerExact ==
    /\ DOMAIN intent_usage = DOMAIN accepted
    /\ \A mandate_id \in DOMAIN intent_usage :
           /\ accepted[mandate_id].count >= 1
           /\ intent_usage[mandate_id].use_count = accepted[mandate_id].count
           /\ intent_usage[mandate_id].total_spent = accepted[mandate_id].sum
    /\ (Returned /\ last.out.ok) =>
           /\ DOMAIN intent_usage = DOMAIN last.usage \cup {LastMandateId}
           /\ intent_usage[LastMandateId].use_count = LastEntry.use_count + 1
           /\ intent_usage[LastMandateId].total_spent = LastEntry.total_spent + LastAmount
           /\ \A other \in DOMAIN last.usage \ {LastMandateId} :
                  intent_usage[other] = last.usage[other]

\* a presentation accepted at a site whose ledger holds the entry of another
\* mandate, used twice
C24_Witness ==
    /\ Returned /\ last.out.ok
    /\ \E other \in DOMAIN last.usage :
           other # LastMandateId /\ last.usage[other].use_count = 2
    /\ Has(intent_usage, LastMandateId)

\* C26: the ledger key is a function of the issuer token alone.  An accepted
\* presentation is counted in the entry of its issuer token, whatever its
\* key-binding token, on top of what earlier presentations of that issuer
\* token left there; credentials of the pool have the same key exactly when
\* they have the same issuer token.
C26_LedgerKeyIsIssuerToken ==
    /\ \A i, j \in DOMAIN MandatePool :
           (LedgerKey(MandatePool[i]) = LedgerKey(MandatePool[j]))
               <=> (MandatePool[i][1] = MandatePool[j][1])
    /\ (Returned /\ last.out.ok) =>
           /\ Len(last.out.write) = 2
           /\ last.out.write[1] = MandateId(MandatePool[last.call.mandate][1])
           /\ last.out.write[2] =
                  [total_spent |-> LastEntry.total_spent + LastAmount,
                   use_count |-> LastEntry.use_count + 1]
    /\ (Returned /\ LastReachedLedger /\ Has(LastAuth, "max_total")
           /\ LastEntry.total_spent + LastAmount > LastAuth.max_total) => Rejected

\* the mandate bound again, with another nonce and an amount claim, is
\* presented for 600 cents after 500 cents were accepted under its first
\* binding: 1100 > max_total = 1000
C26_Witness ==
    /\ Returned /\ site = "merchant"
    /\ last.call.mandate = 2
    /\ LastAmount = 600
    /\ LastEntry = [total_spent |-> 500, use_count |-> 1]
    /\ Rejected
    /\ LastText = "cumulative spend would exceed max_total"

\* C32: verify_intent_mandate accepts a credential only if its issuer claims
\* carry an authorization envelope.
C32_AuthorizationRequired ==
    (Returned /\ last.out.ok) => Has(IssuerJwts[LastMandateId][2], "authorization")

\* C32, the other way round: a platform-signed credential without an
\* authorization claim presented as an intent mandate is rejected.
C32_NoEnvelopeRejected ==
    (Returned /\ ~Has(IssuerJwts[LastMandateId][2], "authorization")) => Rejected

\* ------------------------------------------------- the key cache, under Spec

\* C17: once a fetch has succeeded the cached key set is never replaced,
\* whatever the interleaving of the callers and whatever the endpoint
\* answers later.
C17_CacheNeverReplaced ==
    [][jwks_cache # None => jwks_cache' = jwks_cache]_vars

\* C18: a call whose key fetch failed gets an empty key set, leaves the
\* cache as it was (empty, if no other fetch has filled it), is rejected
\* with key_source_unavailable and leaves the ledger alone; so is every call
\* that got no keys.
C18_FetchFailure ==
    [][(last' # last) =>
          /\ last'.fetch = "error" =>
                /\ last'.jwks = [keys |-> <<>>]
                /\ jwks_cache' = jwks_cache
          /\ Len(Get(last'.jwks, "keys", <<>>)) = 0 =>
                /\ last'.out = Reject(<<"Cannot fetch platform signing keys">>)
                /\ FailureKind(last'.out.message) = "key_source_unavailable"
                /\ intent_usage' = intent_usage
                /\ accepted' = accepted]_vars

\* a call whose fetch failed was rejected and the cache is still empty, so
\* that the next call fetches again
C18_Witness ==
    /\ Returned
    /\ last.fetch = "error"
    /\ last.out = Reject(<<"Cannot fetch platform signing keys">>)
    /\ jwks_cache = None
    /\ intent_usage = EmptyDict

\* C28, the part that is about the key fetch, under SpecTimeout: the calls
\* suspended in the fetch all return, and one whose fetch was cut off
\* returns reject with key_source_unavailable (C18_FetchFailure).
C28_SuspendedCallsReturn == (pending # EmptyBag) ~> (pending = EmptyBag)

\* C33: whenever the key cache is populated it holds a key set with at least
\* one key; a response without keys is never cached.
C33_CachedKeysetNonEmpty ==
    jwks_cache # None => Len(Get(jwks_cache, "keys", <<>>)) >= 1

\* C33, the consequence: a call that found the cache populated is not
\* rejected with key_source_unavailable.
C33_CachedCallsHaveKeys ==
    (Returned /\ last.fetch = "cached") =>
        last.out # Reject(<<"Cannot fetch platform signing keys">>)

\* C19: at most one GET to the key endpoint is outstanding at any time, and
\* the cache holds nothing or one key set that a successful fetch returned.
C19_SingleFlight ==
    /\ BagCardinality(pending) <= 1
    /\ jwks_cache # None => \E r \in Responses : r.status = "ok" /\ jwks_cache = r.body

\* ============================================ SpecCheckout: checkout mandates
\* One verify_checkout_mandate call: the platform issued, at time 0, a
\* credential over a checkout snapshot for an agent holding HolderKey, and
\* the merchant verifies it at time t against its live session, with the key
\* set its fetch returned.

\* a checkout response of the merchant, totals in thousandths
Checkout(id, total) == [id |-> id, status |-> "ready_for_complete", totals |-> [total |-> total]]

\* the snapshots a mandate can embed (the live session is cs_1 at 44.99):
\*  1  the live checkout, as the merchant signed it
\*  2  the checkout as the merchant signed it when the total was 40.00
\*  3  snapshot 2 with the total rewritten to 44.99
\*  4  the live checkout without the merchant's ap2 field
\*  5  the live checkout under a detached signature by another key
\*  6  a checkout of another session, as the merchant signed it
\*  7  the live checkout with an empty merchant_authorization
\*  8  the live checkout with a merchant_authorization whose signature
\*     segment is not base64url text
Snapshots ==
    <<sign_checkout_response(Checkout("cs_1", 44990)),
      sign_checkout_response(Checkout("cs_1", 40000)),
      Merge(sign_checkout_response(Checkout("cs_1", 40000)), [totals |-> [total |-> 44990]]),
      Checkout("cs_1", 44990),
      Merge(Checkout("cs_1", 44990),
            [ap2 |-> [merchant_authorization |->
                sign_detached(jcs_canonicalize(Checkout("cs_1", 44990)), OtherKey, "merchant_002")]]),
      sign_checkout_response(Checkout("cs_2", 44990)),
      Merge(Checkout("cs_1", 44990), [ap2 |-> [merchant_authorization |-> <<>>]]),
      Merge(Checkout("cs_1", 44990),
            [ap2 |-> [merchant_authorization |->
                <<[alg |-> "ES256", kid |-> "merchant_002"], EmptySegment,
                  <<"b64", <<"sig">>, "!">>>>]])>>

\* the claims of the mandate: snapshot 0 is a credential without a checkout
CheckoutClaims(snapshot) ==
    IF snapshot = 0 THEN [sub |-> "agent_1"] ELSE [checkout |-> Snapshots[snapshot]]

CheckoutMandate(c) ==
    create_sd_jwt_kb_with_holder_key(CheckoutClaims(c.snapshot), c.issuer_key, "platform",
        HolderKey, Jwk(HolderKey), c.audience, "checkout-mandate+sd-jwt",
        MandateTtl, EmptyDict, 0, "n1")

\* the live session, as a dict: also one without totals and one without id
CheckoutSessions ==
    {Session("cs_1", 44990), Session("cs_1", 40000), Session("cs_2", 44990),
     [id |-> "cs_1"], [totals |-> [total |-> 44990]]}

CheckoutCalls ==
    [snapshot : 0..8, issuer_key : {PlatformKey, OtherKey}, audience : {"cs_1", "cs_2"},
     session : CheckoutSessions,
     jwks : {PlatformJwks, [keys |-> <<>>], EmptyDict},
     t : 0..MaxNow]

\* _intent_usage of the merchant process when the mandate is presented: empty,
\* or with what an intent mandate accepted before left there
CheckoutLedgers == {EmptyDict, Put(EmptyDict, 1, [total_spent |-> 500, use_count |-> 1])}

\* the dict of the session at the second presentation: the one of the first,
\* or the session after an update that changed its total
ReplaySessions(session) == {session, Session("cs_1", 40000)}

\* the ledger after a verification call returned out
LedgerAfter(usage, out) ==
    IF Len(out.write) = 0 THEN usage ELSE Put(usage, out.write[1], out.write[2])

CheckoutInit ==
    /\ checkout_call \in CheckoutCalls
    /\ checkout_result = Pending
    /\ checkout_replay = Pending
    /\ site = "none"
    /\ store_id = "none"
    /\ now = 0
    /\ jwks_cache = None
    /\ intent_usage \in CheckoutLedgers
    /\ pending = EmptyBag
    /\ ncalls = 0
    /\ last = Idle
    /\ accepted = EmptyDict
    /\ SdJwtUnused
    /\ PayUnused
    /\ DetachedUnused
    /\ CanonUnused

VerifyCheckoutMandate ==
    /\ checkout_result = Pending
    /\ checkout_result' = verify_checkout_mandate(checkout_call.jwks,
                              CheckoutMandate(checkout_call), checkout_call.session,
                              checkout_call.t)
    /\ intent_usage' = LedgerAfter(intent_usage, checkout_result')
    /\ UNCHANGED <<checkout_call, checkout_replay>>
    /\ UNCHANGED <<site, store_id, now, jwks_cache, pending, ncalls, last, accepted>>
    /\ UNCHANGED <<sdjwtVars, payVars, detachedVars, canonVars>>

\* the same mandate string is presented a second time, at time t or later,
\* with the key set the process has then and the session as it is then
PresentAgain ==
    /\ checkout_result # Pending
    /\ checkout_replay = Pending
    /\ \E t \in checkout_call.t..MaxNow,
          jwks \in {PlatformJwks, [keys |-> <<>>], EmptyDict},
          session \in ReplaySessions(checkout_call.session) :
            LET out == verify_checkout_mandate(jwks, CheckoutMandate(checkout_call), session, t)
            IN  /\ checkout_replay' = [t |-> t, jwks |-> jwks, session |-> session, out |-> out]
                /\ intent_usage' = LedgerAfter(intent_usage, out)
    /\ UNCHANGED <<checkout_call, checkout_result>>
    /\ UNCHANGED <<site, store_id, now, jwks_cache, pending, ncalls, last, accepted>>
    /\ UNCHANGED <<sdjwtVars, payVars, detachedVars, canonVars>>

CheckoutNext == VerifyCheckoutMandate \/ PresentAgain

SpecCheckout == CheckoutInit /\ [][CheckoutNext]_vars

\* ---------------------------------------------------- SpecCheckout: claims

CheckoutDone == checkout_result # Pending

\* the conditions of the claim, read off the arguments of the call
KeyAvailable == checkout_call.jwks = PlatformJwks

CredentialVerifies ==
    /\ checkout_call.issuer_key = PlatformKey
    /\ checkout_call.t <= MandateTtl
    /\ Has(checkout_call.session, "id")
    /\ checkout_call.audience = checkout_call.session.id

EmbedsSessionId ==
    /\ checkout_call.snapshot # 0
    /\ Has(checkout_call.session, "id")
    /\ (checkout_call.snapshot = 6) = (checkout_call.session.id = "cs_2")

EmbeddedTotal == IF checkout_call.snapshot = 2 THEN 40000 ELSE 44990

EmbedsLiveTotal ==
    /\ checkout_call.snapshot # 0
    /\ Has(checkout_call.session, "totals")
    /\ checkout_call.session.totals.total = EmbeddedTotal

CarriesMerchantAuthorization == checkout_call.snapshot \in {1, 2, 3, 5, 6, 8}

MerchantAuthorizationGenuine == checkout_call.snapshot \in {1, 2, 6}

\* C7: verify_checkout_mandate accepts exactly when a platform key is
\* available, the credential verifies under it for the session id as
\* audience, the embedded checkout has the session's id and the live
\* session's total, and it carries a merchant authorization that the
\* merchant's own check passes; a mandate that is in order up to the total
\* and embeds another total is rejected with scope_mismatch.
C7_CheckoutMandateAcceptedIff ==
    CheckoutDone =>
        /\ checkout_result.ok <=>
               /\ KeyAvailable
               /\ CredentialVerifies
               /\ EmbedsSessionId
               /\ EmbedsLiveTotal
               /\ CarriesMerchantAuthorization
               /\ MerchantAuthorizationGenuine
        /\ (KeyAvailable /\ CredentialVerifies /\ EmbedsSessionId /\ ~EmbedsLiveTotal)
               => /\ ~checkout_result.ok
                  /\ FailureKind(checkout_result.message) = "scope_mismatch"

\* the snapshot signed at 40.00 presented against the live session at 44.99
C7_Witness ==
    /\ CheckoutDone
    /\ checkout_call.snapshot = 2
    /\ checkout_call.session = Session("cs_1", 44990)
    /\ KeyAvailable /\ CredentialVerifies
    /\ checkout_result = Reject(<<"mandate_scope_mismatch", "total mismatch">>)

\* a mandate over the live checkout is accepted
C7_Accepted ==
    /\ CheckoutDone
    /\ checkout_call.snapshot = 1
    /\ checkout_result.ok

\* C28: every started verification call eventually returns accept or reject.
\* Of verify_checkout_mandate: a call that has ended has returned one of the
\* two, none was left by an exception.
C28_ReturnsAcceptOrReject ==
    CheckoutDone =>
        \/ checkout_result.ok
        \/ /\ checkout_result.message # <<>>
           /\ checkout_result.message[1] # "raise"

ReplayDone == checkout_replay \notin {Pending, Idle}

\* the second presentation has the key set and the session of the first and
\* is made before the mandate's exp has passed
SameConditions ==
    /\ checkout_replay.jwks = checkout_call.jwks
    /\ checkout_replay.session = checkout_call.session
    /\ checkout_replay.t <= MandateTtl

\* C27: verify_checkout_mandate keeps no state between calls.  No
\* presentation of a checkout mandate changes the usage ledger, whatever it
\* holds, and a second presentation of the same mandate with the same key
\* set, against the same session and before expiry, returns what the first
\* returned.
C27_ReplayIdempotent ==
    [][/\ intent_usage' = intent_usage
       /\ (checkout_replay' # checkout_replay /\ SameConditions')
              => checkout_replay'.out = checkout_result']_vars

\* a mandate accepted at time 0 is accepted again at time 1, in a process
\* whose ledger has an entry
C27_Witness ==
    /\ ReplayDone
    /\ SameConditions
    /\ checkout_call.t < checkout_replay.t
    /\ checkout_result.ok
    /\ checkout_replay.out.ok
    /\ intent_usage # EmptyDict

\* ================================= SpecPay: checkout completion and payment
\* The merchant process with its checkout sessions and the payment processor
\* with its POST /authorize handler.  complete_session is a coroutine that is
\* suspended in client.post until the processor has answered; authorize is a
\* coroutine that is suspended only in the key fetch of a request carrying an
\* intent mandate.  A client may also post to /authorize itself.

\* number of POST /authorize requests in one behaviour
MaxPosts == 2

\* CheckoutSession(id=..., line_items=..., totals=...) as create_session
\* stores it; the other fields have the defaults of the model class
NewSession(id, total) ==
    [id |-> id, status |-> "incomplete", buyer |-> None, fulfillment |-> None,
     totals |-> [subtotal |-> total, tax |-> 0, total |-> total],
     payment |-> None, order_id |-> <<>>]

Buyers == {None, [email |-> "a@example.com", first_name |-> "A", last_name |-> "B"]}

Fulfillments == {None, [destinations |-> <<[type |-> "shipping"]>>]}

\* update_session: the _sessions dict after the call
update_session(all, session_id, buyer, fulfillment) ==
    IF ~Has(all, session_id) THEN all
    ELSE LET s1 == IF buyer # None THEN [all[session_id] EXCEPT !.buyer = buyer]
                   ELSE all[session_id]
             s2 == IF fulfillment # None THEN [s1 EXCEPT !.fulfillment = fulfillment] ELSE s1
             s3 == IF s2.buyer # None /\ s2.fulfillment # None
                   THEN [s2 EXCEPT !.status = "ready_for_complete"]
                   ELSE s2
         IN  [all EXCEPT ![session_id] = s3]

\* payment tokens: the text as its prefix and the rest
PaymentTokens == {<<"tok_", "4242">>, <<"card_", "4242">>}

\* request.token.startswith("tok_")
TokenAccepted(token) == Len(token) > 0 /\ token[1] = "tok_"

\* the json of the POST complete_session sends (sessions.py 97-102)
AuthorizeRequest(session, token) ==
    [token |-> token, amount |-> session.totals.total, currency |-> "USD",
     merchant_id |-> "merchant_demo"]

\* the requests a client posts to /authorize itself
ClientRequests ==
    {[token |-> <<"tok_", "4242">>, amount |-> 5000, currency |-> "USD",
      merchant_id |-> "m_1", intent_mandate |-> MandatePool[m]] : m \in {1, 4, 5}}
    \cup {[token |-> <<"tok_", "4242">>, amount |-> -5000, currency |-> "USD",
           merchant_id |-> "m_1", intent_mandate |-> MandatePool[1]]}

\* if request.intent_mandate: a mandate is present and not the empty string
CarriesIntentMandate(request) ==
    Has(request, "intent_mandate") /\ request.intent_mandate # <<>>

\* AuthorizeResponse(...) with status 200
Approved(id, request) ==
    [status_code |-> 200,
     body |-> [authorization_id |-> <<"auth", id>>, status |-> "approved",
               amount |-> request.amount, currency |-> request.currency]]

\* raise HTTPException(status_code=..., detail=...)
HttpError(status_code, detail) == [status_code |-> status_code, detail |-> detail]

\* authorize from the return of _verify_intent_mandate on
AuthorizeAfterVerify(p, out) ==
    IF ~out.ok
    THEN [p EXCEPT !.state = "answered",
                   !.response = HttpError(403, <<"Intent mandate verification failed", out.message>>)]
    ELSE [p EXCEPT !.state = "answered", !.psp_verified = TRUE,
                   !.response = Approved(p.id, p.request)]

PayInit ==
    /\ site = "psp"
    /\ store_id = "none"
    /\ now = 0
    /\ jwks_cache = None
    /\ intent_usage = EmptyDict
    /\ pending = EmptyBag
    /\ ncalls = 0
    /\ last = Idle
    /\ accepted = EmptyDict
    /\ sessions = [id \in {"cs_1"} |-> NewSession(id, 5000)]
    /\ posts = {}
    /\ nposts = 0
    /\ SdJwtUnused
    /\ CheckoutUnused
    /\ DetachedUnused
    /\ CanonUnused

\* PUT /checkout-sessions/{id}, the update_checkout tool
UpdateSession(session_id, buyer, fulfillment) ==
    /\ sessions' = update_session(sessions, session_id, buyer, fulfillment)
    /\ UNCHANGED <<posts, nposts, siteVars, sdjwtVars, checkoutVars, detachedVars, canonVars>>

\* complete_session up to the await of client.post: nothing is verified
\* between the status test and the POST
CompleteSession(session_id, token) ==
    /\ nposts < MaxPosts
    /\ IF ~Has(sessions, session_id) \/ sessions[session_id].status = "completed"
       THEN UNCHANGED <<posts, nposts>>
       ELSE /\ nposts' = nposts + 1
            /\ posts' = posts \cup
                   {[id |-> nposts + 1, from |-> "merchant", session_id |-> session_id,
                     request |-> AuthorizeRequest(sessions[session_id], token),
                     merchant_verified |-> FALSE, psp_verified |-> FALSE,
                     state |-> "sent", response |-> None, resumed |-> FALSE]}
    /\ UNCHANGED <<sessions, siteVars, sdjwtVars, checkoutVars, detachedVars, canonVars>>

\* a client posts to /authorize without passing by the merchant
ClientPosts(request) ==
    /\ nposts < MaxPosts
    /\ nposts' = nposts + 1
    /\ posts' = posts \cup
           {[id |-> nposts + 1, from |-> "client", session_id |-> "none",
             request |-> request,
             merchant_verified |-> FALSE, psp_verified |-> FALSE,
             state |-> "sent", response |-> None, resumed |-> FALSE]}
    /\ UNCHANGED <<sessions, siteVars, sdjwtVars, checkoutVars, detachedVars, canonVars>>


\* what the payment processor leaves untouched in SpecPay
pspUnused == <<site, store_id, now, pending, ncalls, last, accepted>>

\* POST /authorize reaches the handler, which runs to its return or to the
\* await of the key fetch
Authorize(p) ==
    /\ p \in posts
    /\ p.state = "sent"
    /\ IF ~TokenAccepted(p.request.token)
       THEN /\ posts' = (posts \ {p}) \cup
                   {[p EXCEPT !.state = "answered",
                              !.response = HttpError(400, <<"Invalid token: must start with 'tok_'">>)]}
            /\ UNCHANGED <<jwks_cache, intent_usage>>
       ELSE IF ~CarriesIntentMandate(p.request)
       THEN /\ posts' = (posts \ {p}) \cup
                   {[p EXCEPT !.state = "answered", !.response = Approved(p.id, p.request)]}
            /\ UNCHANGED <<jwks_cache, intent_usage>>
       ELSE IF jwks_cache = None
       THEN /\ posts' = (posts \ {p}) \cup {[p EXCEPT !.state = "fetching"]}
            /\ UNCHANGED <<jwks_cache, intent_usage>>
       ELSE LET out == psp_verify_intent_mandate(jwks_cache, intent_usage,
                           p.request.intent_mandate, p.request.amount, now)
            IN  /\ posts' = (posts \ {p}) \cup {AuthorizeAfterVerify(p, out)}
                /\ intent_usage' = LedgerAfter(intent_usage, out)
                /\ UNCHANGED jwks_cache
    /\ UNCHANGED <<sessions, nposts, pspUnused, sdjwtVars, checkoutVars, detachedVars, canonVars>>

\* the key fetch of a suspended authorize call ends; the call runs to its return
AuthorizeFetchReturns(p, response) ==
    /\ p \in posts
    /\ p.state = "fetching"
    /\ jwks_cache' = CacheAfterFetch(jwks_cache, response)
    /\ LET out == psp_verify_intent_mandate(FetchReturnValue(response),
                      UsageReadOnResume(intent_usage),
                      p.request.intent_mandate, p.request.amount, now)
       IN  /\ posts' = (posts \ {p}) \cup {AuthorizeAfterVerify(p, out)}
           /\ intent_usage' = LedgerAfter(intent_usage, out)
    /\ UNCHANGED <<sessions, nposts, pspUnused, sdjwtVars, checkoutVars, detachedVars, canonVars>>

\* complete_session from the response of the POST on: raise_for_status()
\* raises on a 4xx or 5xx answer, otherwise the session object read before
\* the await is completed
CompleteSessionResumes(p) ==
    /\ p \in posts
    /\ p.from = "merchant"
    /\ p.state = "answered"
    /\ ~p.resumed
    /\ posts' = (posts \ {p}) \cup {[p EXCEPT !.resumed = TRUE]}
    /\ sessions' = IF p.response.status_code >= 400 THEN sessions
                   ELSE [sessions EXCEPT ![p.session_id] =
                            [@ EXCEPT !.payment = p.response.body,
                                      !.status = "completed",
                                      !.order_id = <<"order", p.id>>]]
    /\ UNCHANGED <<nposts, siteVars, sdjwtVars, checkoutVars, detachedVars, canonVars>>

PayNext ==
    \/ \E session_id \in {"cs_1", "cs_9"}, buyer \in Buyers, fulfillment \in Fulfillments :
           UpdateSession(session_id, buyer, fulfillment)
    \/ \E session_id \in {"cs_1", "cs_9"}, token \in PaymentTokens :
           CompleteSession(session_id, token)
    \/ \E request \in ClientRequests : ClientPosts(request)
    \/ \E p \in posts : Authorize(p)
    \/ \E p \in posts, response \in Responses : AuthorizeFetchReturns(p, response)
    \/ \E p \in posts : CompleteSessionResumes(p)

SpecPay == PayInit /\ [][PayNext]_vars

\* -------------------------------------------------------- SpecPay: claims

\* C2: the merchant's complete operation sends an authorize request only
\* after it verified a checkout or intent mandate for the session, and the
\* payment processor answers approved only to a request whose mandate it
\* verified itself.
C2_MoneyMovesAfterBothVerified ==
    \A p \in posts :
        /\ p.from = "merchant" => p.merchant_verified
        /\ (p.state = "answered" /\ p.response.status_code = 200) => p.psp_verified

\* the merchant's half of C2 alone
C2_MerchantVerifiesBeforeAuthorize ==
    \A p \in posts : p.from = "merchant" => p.merchant_verified

\* the payment processor's half of C2 alone
C2_ProcessorApprovesVerifiedOnly ==
    \A p \in posts :
        (p.state = "answered" /\ p.response.status_code = 200) => p.psp_verified

\* a session completed on an approval given to a request without mandate
C2_CompletedUnverified ==
    \E p \in posts :
        /\ p.from = "merchant"
        /\ p.resumed
        /\ ~p.merchant_verified /\ ~p.psp_verified
        /\ sessions[p.session_id].status = "completed"
        /\ sessions[p.session_id].payment.status = "approved"

\* C25: every entry of the usage ledger has total_spent >= 0 and
\* use_count >= 0, for every amount the verifier is called with.
C25_LedgerNonNegative ==
    \A mandate_id \in DOMAIN intent_usage :
        /\ intent_usage[mandate_id].total_spent >= 0
        /\ intent_usage[mandate_id].use_count >= 0

\* C25, the other half: no counter of an entry ever decreases and no entry
\* is ever removed.
C25_LedgerMonotonic ==
    [][\A mandate_id \in DOMAIN intent_usage :
          /\ mandate_id \in DOMAIN intent_usage'
          /\ intent_usage'[mandate_id].total_spent >= intent_usage[mandate_id].total_spent
          /\ intent_usage'[mandate_id].use_count >= intent_usage[mandate_id].use_count]_vars

\* C29: completed is terminal.  No step taken on a session whose status is
\* completed changes its status, its payment record or its order_id.
C29_CompletedIsTerminal ==
    [][\A session_id \in DOMAIN sessions :
          sessions[session_id].status = "completed" =>
              /\ sessions'[session_id].status = "completed"
              /\ sessions'[session_id].payment = sessions[session_id].payment
              /\ sessions'[session_id].order_id = sessions[session_id].order_id]_vars

\* the part of C29 about update_session alone: the status of a completed
\* session stays completed whenever payment and order_id are left alone
C29_StatusStaysCompleted ==
    [][\A session_id \in DOMAIN sessions :
          (/\ sessions[session_id].status = "completed"
           /\ sessions'[session_id].payment = sessions[session_id].payment
           /\ sessions'[session_id].order_id = sessions[session_id].order_id)
              => sessions'[session_id].status = "completed"]_vars

\* the authorize requests complete_session sent for a session
SentFor(session_id) == {p \in posts : p.from = "merchant" /\ p.session_id = session_id}

\* the order ids complete_session has assigned to a session
OrderIdsOf(session_id) ==
    {<<"order", p.id>> : p \in {q \in SentFor(session_id) :
                                    q.resumed /\ q.response.status_code < 400}}

\* C30: for each checkout session at most one authorize request is ever
\* sent to the payment processor and at most one order_id is ever assigned.
C30_OneAuthorizePerSession ==
    \A session_id \in DOMAIN sessions :
        /\ Cardinality(SentFor(session_id)) <= 1
        /\ Cardinality(OrderIdsOf(session_id)) <= 1

\* C30, the second half alone: at most one order_id per session
C30_OneOrderIdPerSession ==
    \A session_id \in DOMAIN sessions : Cardinality(OrderIdsOf(session_id)) <= 1

\* both buyer and fulfillment have been provided: update_session has set the
\* status to ready_for_complete, and neither field is ever taken back
BuyerAndFulfillmentProvided(session_id) ==
    /\ sessions[session_id].buyer # None
    /\ sessions[session_id].fulfillment # None

\* C31: complete_session sends an authorize request and sets status
\* completed only for a session that is ready_for_complete.  A session for
\* which a request was sent, or which is completed, has both buyer and
\* fulfillment.
C31_OnlyReadySessionsCharged ==
    \A session_id \in DOMAIN sessions :
        (SentFor(session_id) # {} \/ sessions[session_id].status = "completed")
            => BuyerAndFulfillmentProvided(session_id)

\* C31, as a step: no step sends an authorize request for a session whose
\* status is incomplete, and none takes a session from incomplete to completed.
C31_IncompleteNeverCharged ==
    [][\A session_id \in DOMAIN sessions :
          sessions[session_id].status = "incomplete" =>
              /\ {p.id : p \in SentFor(session_id)'} \subseteq {p.id : p \in SentFor(session_id)}
              /\ sessions'[session_id].status # "completed"]_vars

\* the merchant_ids of the authorization an authorize request presents
RequestMerchantIds(request) ==
    Get(request.intent_mandate[1][2].authorization, "merchant_ids", <<>>)

\* C20: an intent mandate with a non-empty merchant_ids list is never
\* accepted for a requesting merchant that is not in the list: the payment
\* processor approves a request whose mandate it verified only if the
\* mandate names no merchants or names the merchant_id of the request.
C20_MerchantAllowList ==
    \A p \in posts :
        (/\ p.state = "answered"
         /\ p.psp_verified
         /\ p.response.status_code = 200
         /\ Len(RequestMerchantIds(p.request)) > 0)
            => p.request.merchant_id \in Range(RequestMerchantIds(p.request))


\* ============= SpecDetached: detached signatures and merchant authorization
\* One round of the pure functions: a token is made by sign_detached or a
\* record is signed by sign_checkout_response, something is changed on the
\* way, and verify_detached or verify_own_merchant_authorization is called.

DetachedPayloads ==
    <<jcs_canonicalize(Checkout("cs_1", 44990)),
      jcs_canonicalize(Checkout("cs_1", 40000)),
      <<"bytes", "hello">>>>

\* the index of another payload
OtherPayload(i) == (i % Len(DetachedPayloads)) + 1

OtherSigner(private_key) == IF private_key = MerchantKey THEN OtherKey ELSE MerchantKey

\* what happens to the token, the payload or the key before verification
DetachedCases ==
    {"same", "other_payload", "other_key", "other_signature", "padded_signature",
     "undecodable_signature", "empty_signature", "middle_segment", "two_segments",
     "ill_formed_jwk"}

DetachedToken(c) == sign_detached(DetachedPayloads[c.payload], c.key, "kid_1")

\* the token handed to verify_detached
PresentedJws(c) ==
    LET token == DetachedToken(c)
        signature == b64url_decode(token[3])
    IN  CASE c.case = "other_signature" ->
                <<token[1], EmptySegment,
                  sign_detached(DetachedPayloads[OtherPayload(c.payload)], c.key, "kid_1")[3]>>
          [] c.case = "padded_signature" -> <<token[1], EmptySegment, <<"b64", signature, "=">>>>
          [] c.case = "undecodable_signature" ->
                <<token[1], EmptySegment, <<"b64", signature, "!">>>>
          [] c.case = "empty_signature" -> <<token[1], EmptySegment, <<>>>>
          [] c.case = "middle_segment" ->
                <<token[1], b64url_encode(DetachedPayloads[c.payload]), token[3]>>
          [] c.case = "two_segments" -> <<token[1], token[3]>>
          [] OTHER -> token

PresentedPayload(c) ==
    IF c.case = "other_payload"
    THEN DetachedPayloads[OtherPayload(c.payload)]
    ELSE DetachedPayloads[c.payload]

PresentedJwk(c) ==
    CASE c.case = "other_key" -> Jwk(OtherSigner(c.key))
      [] c.case = "ill_formed_jwk" -> Without(Jwk(c.key), "x")
      [] OTHER -> Jwk(c.key)

\* the checkout records the merchant signs: one without an ap2 object and one
\* whose ap2 object holds a field already
OwnRecords ==
    <<Checkout("cs_1", 44990),
      Merge(Checkout("cs_1", 44990), [ap2 |-> [extension |-> "e_1"]]),
      Checkout("cs_2", 40000)>>

\* what happens to the signed record before the merchant checks it
OwnChanges ==
    {"none", "total", "id", "status", "added_field", "removed_field", "ap2_sibling",
     "unsigned", "ap2_removed", "undecodable_signature"}

PresentedRecord(c) ==
    LET signed == sign_checkout_response(OwnRecords[c.record])
        jws == signed.ap2.merchant_authorization
    IN  CASE c.change = "total" -> Merge(signed, [totals |-> [total |-> 39990]])
          [] c.change = "id" -> Merge(signed, [id |-> "cs_3"])
          [] c.change = "status" -> Merge(signed, [status |-> "completed"])
          [] c.change = "added_field" -> Merge(signed, [buyer |-> "b_1"])
          [] c.change = "removed_field" -> Without(signed, "status")
          [] c.change = "ap2_sibling" ->
                Merge(signed, [ap2 |-> Merge(signed.ap2, [extension |-> "e_2"])])
          [] c.change = "unsigned" -> OwnRecords[c.record]
          [] c.change = "ap2_removed" -> Without(signed, "ap2")
          [] c.change = "undecodable_signature" ->
                Merge(signed, [ap2 |-> Merge(signed.ap2,
                    [merchant_authorization |->
                        <<jws[1], EmptySegment, <<"b64", b64url_decode(jws[3]), "!">>>>])])
          [] OTHER -> signed

DetachedCalls ==
    [op : {"verify_detached"}, payload : DOMAIN DetachedPayloads,
     key : {MerchantKey, OtherKey}, case : DetachedCases]
    \cup [op : {"verify_own_merchant_authorization"}, record : DOMAIN OwnRecords,
          change : OwnChanges]

DetachedInit ==
    /\ detached_call \in DetachedCalls
    /\ detached_result = Pending
    /\ SiteUnused
    /\ SdJwtUnused
    /\ CheckoutUnused
    /\ PayUnused
    /\ CanonUnused

VerifyDetached ==
    /\ detached_result = Pending
    /\ detached_call.op = "verify_detached"
    /\ detached_result' = verify_detached(PresentedJws(detached_call),
                              PresentedPayload(detached_call), PresentedJwk(detached_call))
    /\ UNCHANGED detached_call
    /\ UNCHANGED <<siteVars, sdjwtVars, checkoutVars, payVars, canonVars>>

VerifyOwnMerchantAuthorization ==
    /\ detached_result = Pending
    /\ detached_call.op = "verify_own_merchant_authorization"
    /\ detached_result' = verify_own_merchant_authorization(PresentedRecord(detached_call))
    /\ UNCHANGED detached_call
    /\ UNCHANGED <<siteVars, sdjwtVars, checkoutVars, payVars, canonVars>>

DetachedNext == VerifyDetached \/ VerifyOwnMerchantAuthorization

SpecDetached == DetachedInit /\ [][DetachedNext]_vars

\* --------------------------------------------------- SpecDetached: claims

DetachedDone == detached_result # Pending /\ detached_call.op = "verify_detached"

OwnDone ==
    detached_result # Pending /\ detached_call.op = "verify_own_merchant_authorization"

\* the signature segment handed to the verifier is not the one sign_detached
\* made
SignatureSegmentChanged(c) ==
    Len(PresentedJws(c)) = 3 /\ PresentedJws(c)[3] # DetachedToken(c)[3]

\* C14: verify_detached is true for a token of sign_detached with its payload
\* and the signer's public key; against another payload, against another
\* public key or with a changed signature segment it returns false; a token
\* with a non-empty middle segment is rejected.
C14_DetachedRoundTrip ==
    DetachedDone =>
        /\ detached_call.case = "same" => detached_result = Returns(TRUE)
        /\ detached_call.case \in {"other_payload", "other_key"}
                => detached_result = Returns(FALSE)
        /\ SignatureSegmentChanged(detached_call) => detached_result = Returns(FALSE)
        /\ detached_call.case = "middle_segment" => detached_result = Returns(FALSE)

\* C15 as stated: the merchant's check is true for a record as signed, false
\* after a change to any field of the signed record other than the
\* merchant_authorization itself, and false for a record without a merchant
\* authorization.
C15_CoversWholeRecord ==
    OwnDone =>
        /\ detached_call.change = "none" => detached_result = Returns(TRUE)
        /\ detached_call.change \in {"total", "id", "status", "added_field",
                                     "removed_field", "ap2_sibling"}
                => detached_result = Returns(FALSE)
        /\ detached_call.change \in {"unsigned", "ap2_removed"}
                => detached_result = Returns(FALSE)

\* C15 amended: the merchant's signature covers every field of the record
\* outside its ap2 object.  The check is true for a record as signed, false
\* after a field outside ap2 was changed, added or removed, false for a
\* record without a merchant authorization, and still true after another
\* field of the ap2 object was added or changed.
C15_CoversRecordOutsideAp2 ==
    OwnDone =>
        /\ detached_call.change = "none" => detached_result = Returns(TRUE)
        /\ detached_call.change \in {"total", "id", "status", "added_field", "removed_field"}
                => detached_result = Returns(FALSE)
        /\ detached_call.change \in {"unsigned", "ap2_removed"}
                => detached_result = Returns(FALSE)
        /\ detached_call.change = "ap2_sibling" => detached_result = Returns(TRUE)

\* a signed record whose total was rewritten fails the merchant's check
C15_Witness ==
    /\ OwnDone
    /\ detached_call.record = 2
    /\ detached_call.change = "total"
    /\ detached_result = Returns(FALSE)

\* C16: no exception leaves a verifier: for every input, the malformed ones
\* included (wrong number of segments, a segment that fails base64url
\* decoding, an ill-formed key), verify_detached and the merchant's own
\* check return a boolean, false for the malformed input.
C16_NoExceptionCrossesBoundary ==
    detached_result # Pending =>
        /\ ~detached_result.raised
        /\ (/\ detached_call.op = "verify_detached"
            /\ detached_call.case \in {"undecodable_signature", "empty_signature",
                                       "middle_segment", "two_segments", "ill_formed_jwk"})
                => detached_result = Returns(FALSE)
        /\ (/\ detached_call.op = "verify_own_merchant_authorization"
            /\ detached_call.change = "undecodable_signature")
                => detached_result = Returns(FALSE)


\* ======================================= SpecCanon: canonical serialisation
\* jcs_canonicalize on values whose dicts have an insertion order.  A value is
\* tagged with its Python type: <<"str", s>>, <<"int", n>>, <<"float", n>>,
\* <<"bool", b>>, <<"null">>, <<"list", values>>, and <<"dict", items>> with
\* items the <<key, value>> pairs in insertion order, keys being strings.
\* The bytes returned are the sequence of the JSON tokens written.

\* the keys used, by their place in the order of sorted() on str
KeyRank == [id |-> 1, tax |-> 2, total |-> 3, totals |-> 4]

\* json.dumps without sort_keys writes the items in insertion order
SortedItems_InsertionOrder(items) == items

\* sort_keys=True: the items of a dict ordered by key
SortedItems(items) ==
    [j \in 1..Len(items) |->
        CHOOSE p \in Range(items) :
            Cardinality({q \in Range(items) : KeyRank[q[1]] < KeyRank[p[1]]}) = j - 1]

RECURSIVE json_dumps(_)
RECURSIVE DumpItems(_)
RECURSIVE DumpValues(_)

\* the items of a dict, in the order given: "key":value, separated by ","
DumpItems(items) ==
    IF Len(items) = 0 THEN <<>>
    ELSE <<<<"str", items[1][1]>>, <<":">>>> \o json_dumps(items[1][2])
            \o (IF Len(items) = 1 THEN <<>> ELSE <<<<",">>>> \o DumpItems(Tail(items)))

\* the elements of a list, in their order, separated by ","
DumpValues(values) ==
    IF Len(values) = 0 THEN <<>>
    ELSE json_dumps(values[1])
            \o (IF Len(values) = 1 THEN <<>> ELSE <<<<",">>>> \o DumpValues(Tail(values)))

\* json.dumps(obj, sort_keys=True, separators=(",", ":"), ensure_ascii=False)
json_dumps(obj) ==
    CASE obj[1] = "dict" -> <<<<"{">>>> \o DumpItems(SortedItems(obj[2])) \o <<<<"}">>>>
      [] obj[1] = "list" -> <<<<"[">>>> \o DumpValues(obj[2]) \o <<<<"]">>>>
      [] OTHER -> <<obj>>

\* the values canonicalised: a checkout-like dict of an id and one more
\* value, in both insertion orders
CanonInner ==
    {<<"dict", <<<<"total", <<"int", 4499>>>>>>>>,
     <<"dict", <<<<"total", <<"int", 4499>>>>, <<"tax", <<"int", 0>>>>>>>>,
     <<"dict", <<<<"tax", <<"int", 0>>>>, <<"total", <<"int", 4499>>>>>>>>,
     <<"dict", <<<<"tax", <<"int", 0>>>>, <<"total", <<"int", 4000>>>>>>>>,
     <<"dict", <<<<"total", <<"float", 4499>>>>>>>>,
     <<"dict", <<>>>>,
     <<"list", <<<<"str", "a">>, <<"str", "b">>>>>>,
     <<"list", <<<<"str", "b">>, <<"str", "a">>>>>>,
     <<"str", "4499">>, <<"int", 4499>>, <<"float", 4499>>, <<"null">>, <<"bool", TRUE>>}

CanonValues ==
    {<<"dict", <<<<"id", <<"str", i>>>>, <<"totals", v>>>>>> :
        i \in {"cs_1", "cs_2"}, v \in CanonInner}
    \cup {<<"dict", <<<<"totals", v>>, <<"id", <<"str", i>>>>>>>> :
        i \in {"cs_1", "cs_2"}, v \in CanonInner}
    \cup {<<"dict", <<<<"id", <<"str", "cs_1">>>>>>>>}

CanonInit ==
    /\ canon_call \in [a : CanonValues, b : CanonValues]
    /\ canon_result = Pending
    /\ SiteUnused
    /\ SdJwtUnused
    /\ CheckoutUnused
    /\ PayUnused
    /\ DetachedUnused

Canonicalize ==
    /\ canon_result = Pending
    /\ canon_result' = [a |-> json_dumps(canon_call.a), b |-> json_dumps(canon_call.b)]
    /\ UNCHANGED canon_call
    /\ UNCHANGED <<siteVars, sdjwtVars, checkoutVars, payVars, detachedVars>>

CanonNext == Canonicalize

SpecCanon == CanonInit /\ [][CanonNext]_vars

\* ------------------------------------------------------ SpecCanon: claims

CanonDone == canon_result # Pending

\* the value a dict holds under a key
ItemOf(items, k) == (CHOOSE p \in Range(items) : p[1] = k)[2]

KeysOf(items) == {p[1] : p \in Range(items)}

RECURSIVE StructurallyEqual(_, _)

\* the same type and, for a dict, the same keys with structurally equal
\* values; for a list, structurally equal elements in the same order; for a
\* scalar, the same value
StructurallyEqual(x, y) ==
    IF x[1] # y[1] THEN FALSE
    ELSE CASE x[1] = "dict" ->
                /\ KeysOf(x[2]) = KeysOf(y[2])
                /\ \A k \in KeysOf(x[2]) :
                       StructurallyEqual(ItemOf(x[2], k), ItemOf(y[2], k))
           [] x[1] = "list" ->
                /\ Len(x[2]) = Len(y[2])
                /\ \A i \in DOMAIN x[2] : StructurallyEqual(x[2][i], y[2][i])
           [] OTHER -> x = y

\* the nesting depth of the token at position i: the objects open before it
DepthAt(bytes, i) ==
    Cardinality({j \in 1..(i - 1) : bytes[j] = <<"{">>})
        - Cardinality({j \in 1..(i - 1) : bytes[j] = <<"}">>})

\* the positions of the keys written at one depth
KeyPositions(bytes, depth) ==
    {i \in 1..(Len(bytes) - 1) :
        /\ bytes[i + 1] = <<":">>
        /\ DepthAt(bytes, i) = depth}

\* the keys of every object are written in ascending order (a value here has
\* at most one object at each depth) and no token is white space
SortedAndCompact(bytes) ==
    /\ \A depth \in 1..2 :
           \A i, j \in KeyPositions(bytes, depth) :
               i < j => KeyRank[bytes[i][2]] < KeyRank[bytes[j][2]]
    /\ \A i \in DOMAIN bytes : bytes[i] \notin {<<" ">>, <<", ">>, <<": ">>}

====
